---- MODULE Spec2Model ----
(***************************************************************************)
(* A model of the SalsifyAI provider wrapper (src/ai_helpers/wrapper.js):  *)
(* provider instances created by createProvider, their context store, and  *)
(* the synchronous callCompletion pipeline                                 *)
(*   buildMessages -> validateResponseFormat / directive injection ->      *)
(*   serializeContext -> buildRequest -> performRequest ->                 *)
(*   extractContent -> extractJSON.                                        *)
(*                                                                         *)
(* JavaScript values are modelled as tagged records [t, v]; JavaScript     *)
(* strings are sequences of tokens so that concatenation, JSON.stringify   *)
(* and JSON.parse are computed and not assumed.                            *)
(***************************************************************************)
EXTENDS Integers, Sequences, FiniteSets, TLC

(***************************************************************************)
(* JavaScript values                                                       *)
(***************************************************************************)
\* t is the type tag; v the payload:
\*   "undef"/"null": 0          "bool": BOOLEAN        "num": Int
\*   "str": sequence of tokens  "arr": sequence of values
\*   "obj": sequence of <<key, value>> pairs in insertion order (keys unique)
\*   "throw": the value (an Error's message) thrown instead of returning one
Undef == [t |-> "undef", v |-> 0]

Null == [t |-> "null", v |-> 0]

Bool(b) == [t |-> "bool", v |-> b]

Num(n) == [t |-> "num", v |-> n]

Str(toks) == [t |-> "str", v |-> toks]

Arr(items) == [t |-> "arr", v |-> items]

Obj(pairs) == [t |-> "obj", v |-> pairs]

Throw(msg) == [t |-> "throw", v |-> msg]

IsThrow(x) == x.t = "throw"

\* String tokens are pairs <<kind, payload>>:
\*   <<"w", s>>  an opaque run of characters s (never ending in "/")
\*   <<"p", s>>  one JSON punctuation mark or literal: { } [ ] , : true false null
\*   <<"n", i>>  the decimal digits of the integer i
\*   <<"q", ts>> a double-quoted JSON string literal whose characters are ts
W(s) == <<"w", s>>

P(s) == <<"p", s>>

Text(s) == Str(<<W(s)>>)

EmptyStr == Str(<<>>)

\* The one-character string "/" is its own token.
Slash == W("/")

\* a + b on two strings
Concat(a, b) == Str(a.v \o b.v)

\* the TypeError raised by reading a property of undefined or null
TypeError == Text("TypeError")

\* ToBoolean
Truthy(x) ==
  CASE x.t = "undef" -> FALSE
    [] x.t = "null" -> FALSE
    [] x.t = "bool" -> x.v
    [] x.t = "num" -> x.v # 0
    [] x.t = "str" -> x.v # <<>>
    [] OTHER -> TRUE

\* a || b
Or(a, b) == IF Truthy(a) THEN a ELSE b

\* typeof x === "object"
TypeofObject(x) == x.t \in {"null", "obj", "arr"}

\* Array.isArray(x)
IsArray(x) == x.t = "arr"

\* index of key k in the pair list ps, 0 when absent
KeyIndex(ps, k) ==
  IF \E i \in 1..Len(ps) : ps[i][1] = k
  THEN CHOOSE i \in 1..Len(ps) : ps[i][1] = k
  ELSE 0

\* o.hasOwnProperty(k) for an object o
Has(o, k) == o.t = "obj" /\ KeyIndex(o.v, k) # 0

\* o.k : a property read. Reading a property of undefined or null raises a
\* TypeError; a missing property reads as undefined.
Get(o, k) ==
  CASE IsThrow(o) -> o
    [] o.t \in {"undef", "null"} -> Throw(TypeError)
    [] o.t = "obj" -> IF KeyIndex(o.v, k) = 0 THEN Undef ELSE o.v[KeyIndex(o.v, k)][2]
    [] OTHER -> Undef

\* a[i] : an indexed read, 0-based as in JavaScript
At(a, i) ==
  CASE IsThrow(a) -> a
    [] a.t \in {"undef", "null"} -> Throw(TypeError)
    [] a.t = "arr" -> IF i + 1 \in 1..Len(a.v) THEN a.v[i + 1] ELSE Undef
    [] OTHER -> Undef

\* o.k = val on an object: replaces in place or appends a new key
Set(o, k, val) ==
  IF KeyIndex(o.v, k) = 0
  THEN Obj(Append(o.v, <<k, val>>))
  ELSE Obj([o.v EXCEPT ![KeyIndex(o.v, k)] = <<k, val>>])

\* delete o.k
Delete(o, k) ==
  Obj(SelectSeq(o.v, LAMBDA pr : pr[1] # k))

(***************************************************************************)
(* JSON.stringify and JSON.parse                                           *)
(***************************************************************************)
RECURSIVE StringifyToks(_)
RECURSIVE StringifyItems(_, _)
RECURSIVE StringifyMembers(_, _)

\* The characters JSON.stringify writes for x. An undefined array element is
\* written as null.
StringifyToks(x) ==
  CASE x.t = "null" -> <<P("null")>>
    [] x.t = "bool" -> <<P(IF x.v THEN "true" ELSE "false")>>
    [] x.t = "num" -> <<<<"n", x.v>>>>
    [] x.t = "str" -> <<<<"q", x.v>>>>
    [] x.t = "arr" -> <<P("[")>> \o StringifyItems(x.v, 1) \o <<P("]")>>
    [] x.t = "obj" ->
         <<P("{")>>
         \o StringifyMembers(SelectSeq(x.v, LAMBDA pr : pr[2].t \notin {"undef", "function"}), 1)
         \o <<P("}")>>
    [] OTHER -> <<P("null")>>

StringifyItems(items, i) ==
  IF i > Len(items) THEN <<>>
  ELSE (IF i > 1 THEN <<P(",")>> ELSE <<>>)
       \o StringifyToks(items[i]) \o StringifyItems(items, i + 1)

\* members whose value is undefined or a function are left out by the caller
StringifyMembers(ps, i) ==
  IF i > Len(ps) THEN <<>>
  ELSE (IF i > 1 THEN <<P(",")>> ELSE <<>>)
       \o <<<<"q", <<W(ps[i][1])>>>>, P(":")>>
       \o StringifyToks(ps[i][2]) \o StringifyMembers(ps, i + 1)

\* JSON.stringify(x): a string, or undefined for undefined
JSONstringify(x) == IF x.t = "undef" THEN Undef ELSE Str(StringifyToks(x))

IsP(toks, i, s) == i <= Len(toks) /\ toks[i][1] = "p" /\ toks[i][2] = s

ParseFail == [ok |-> FALSE, val |-> Undef, next |-> 0]

\* the key a quoted member name stands for
IsKeyToken(tok) == tok[1] = "q" /\ Len(tok[2]) = 1 /\ tok[2][1][1] = "w"

RECURSIVE ParseValue(_, _)
RECURSIVE ParseItems(_, _, _)
RECURSIVE ParseMembers(_, _, _)

\* Recursive descent over the tokens from position i: [ok, val, next]
ParseValue(toks, i) ==
  IF i > Len(toks) THEN ParseFail
  ELSE LET tok == toks[i] IN
    CASE tok[1] = "n" -> [ok |-> TRUE, val |-> Num(tok[2]), next |-> i + 1]
      [] tok[1] = "q" -> [ok |-> TRUE, val |-> Str(tok[2]), next |-> i + 1]
      [] IsP(toks, i, "null") -> [ok |-> TRUE, val |-> Null, next |-> i + 1]
      [] IsP(toks, i, "true") -> [ok |-> TRUE, val |-> Bool(TRUE), next |-> i + 1]
      [] IsP(toks, i, "false") -> [ok |-> TRUE, val |-> Bool(FALSE), next |-> i + 1]
      [] IsP(toks, i, "[") ->
           IF IsP(toks, i + 1, "]")
           THEN [ok |-> TRUE, val |-> Arr(<<>>), next |-> i + 2]
           ELSE ParseItems(toks, i + 1, <<>>)
      [] IsP(toks, i, "{") ->
           IF IsP(toks, i + 1, "}")
           THEN [ok |-> TRUE, val |-> Obj(<<>>), next |-> i + 2]
           ELSE ParseMembers(toks, i + 1, Obj(<<>>))
      [] OTHER -> ParseFail

ParseItems(toks, i, acc) ==
  LET r == ParseValue(toks, i) IN
  IF ~r.ok THEN ParseFail
  ELSE IF IsP(toks, r.next, ",") THEN ParseItems(toks, r.next + 1, Append(acc, r.val))
  ELSE IF IsP(toks, r.next, "]")
       THEN [ok |-> TRUE, val |-> Arr(Append(acc, r.val)), next |-> r.next + 1]
  ELSE ParseFail

ParseMembers(toks, i, acc) ==
  IF i + 1 > Len(toks) \/ ~IsKeyToken(toks[i]) \/ ~IsP(toks, i + 1, ":") THEN ParseFail
  ELSE LET r == ParseValue(toks, i + 2)
           key == toks[i][2][1][2]
       IN
       IF ~r.ok THEN ParseFail
       ELSE IF IsP(toks, r.next, ",")
            THEN ParseMembers(toks, r.next + 1, Set(acc, key, r.val))
       ELSE IF IsP(toks, r.next, "}")
            THEN [ok |-> TRUE, val |-> Set(acc, key, r.val), next |-> r.next + 1]
       ELSE ParseFail

\* JSON.parse of the characters toks: the value, or a SyntaxError
ParseToks(toks) ==
  LET r == ParseValue(toks, 1) IN
  IF r.ok /\ r.next = Len(toks) + 1 THEN r.val ELSE Throw(Text("SyntaxError"))

RECURSIVE ToStringToks(_)
RECURSIVE JoinToString(_, _)

\* String(x), the conversion JSON.parse applies to a non-string argument
ToStringToks(x) ==
  CASE x.t = "str" -> x.v
    [] x.t = "num" -> <<<<"n", x.v>>>>
    [] x.t = "bool" -> <<P(IF x.v THEN "true" ELSE "false")>>
    [] x.t = "null" -> <<P("null")>>
    [] x.t = "undef" -> <<W("undefined")>>
    [] x.t = "arr" -> JoinToString(x.v, 1)
    [] OTHER -> <<W("[object Object]")>>

\* Array.prototype.join(","): null and undefined elements give the empty string
JoinToString(items, i) ==
  IF i > Len(items) THEN <<>>
  ELSE (IF i > 1 THEN <<P(",")>> ELSE <<>>)
       \o (IF items[i].t \in {"null", "undef"} THEN <<>> ELSE ToStringToks(items[i]))
       \o JoinToString(items, i + 1)

\* JSON.parse(x)
JSONparse(x) == ParseToks(ToStringToks(x))

(***************************************************************************)
(* Shared helpers of createSalsifyAI                                       *)
(***************************************************************************)
\* a && b : b is evaluated only when a is truthy
And(a, b) == IF IsThrow(a) \/ ~Truthy(a) THEN a ELSE b

\* the injected web_request(url, method, payload, headers) primitive: env says
\* whether this invocation throws, and what it throws or returns
WebRequest(requestObject, env) ==
  IF env.throws THEN Throw(env.value) ELSE env.value

\* one entry of the log of web_request invocations
WebCall(requestObject, env) ==
  [url |-> Get(requestObject, "url"), method |-> Get(requestObject, "method"),
   payload |-> Get(requestObject, "payload"), headers |-> Get(requestObject, "headers"),
   threw |-> env.throws]

\* performRequest with a failed web_request tried a second time
performRequestRetries(requestObject, env) ==
  IF Truthy(Get(requestObject, "debugPrompt"))
  THEN [val |-> requestObject, web |-> <<>>]
  ELSE LET r == WebRequest(requestObject, env) IN
       [val |-> IF IsThrow(r)
                THEN Obj(<<<<"status", Text("failure")>>, <<"request", requestObject>>,
                           <<"message", r.v>>>>)
                ELSE r,
        web |-> IF IsThrow(r)
                THEN <<WebCall(requestObject, env), WebCall(requestObject, env)>>
                ELSE <<WebCall(requestObject, env)>>]

\* performRequest: [val |-> the value returned, web |-> the web_request calls made]
performRequest(requestObject, env) ==
  IF Truthy(Get(requestObject, "debugPrompt"))
  THEN [val |-> requestObject, web |-> <<>>]
  ELSE LET r == WebRequest(requestObject, env) IN
       [val |-> IF IsThrow(r)
                THEN Obj(<<<<"status", Text("failure")>>, <<"request", requestObject>>,
                           <<"message", r.v>>>>)
                ELSE r,
        web |-> <<WebCall(requestObject, env)>>]

\* finalApiUrl without the removal of the trailing slash
finalApiUrlKeepsSlash(base, path) == Concat(base, path)

\* finalApiUrl(base, path)
finalApiUrl(base, path) ==
  LET b == IF Len(base.v) > 0 /\ base.v[Len(base.v)] = Slash
           THEN Str(SubSeq(base.v, 1, Len(base.v) - 1))
           ELSE base
  IN Concat(b, path)

\* convertResponseFormatForGemini(responseFormat)
convertResponseFormatForGemini(responseFormat) ==
  IF ~TypeofObject(responseFormat) \/ responseFormat.t = "null" THEN responseFormat
  ELSE IF Has(responseFormat, "schema")
       THEN LET newSchema == JSONparse(JSONstringify(Get(responseFormat, "schema"))) IN
            IF Has(newSchema, "additionalProperties")
            THEN Delete(newSchema, "additionalProperties")
            ELSE newSchema
       ELSE responseFormat

\* the violation messages of validateResponseFormat, in the order they are pushed
ErrNotObject == Text("Response format must be a non-null object.")

ErrName == Text("Missing 'name' property.")

ErrStrict == Text("'strict' property must be true.")

ErrSchema == Text("Missing or invalid 'schema' property.")

ErrType == Text("Schema 'type' must be 'object'.")

ErrProperties == Text("Schema must have a 'properties' object.")

ErrRequired == Text("Schema must have a 'required' array.")

ErrAdditional == Text("Schema 'additionalProperties' must be explicitly false.")

\* errors.push(msg) when cond holds
PushIf(cond, msg) == IF cond THEN <<msg>> ELSE <<>>

\* the checks of validateResponseFormat on a schema that is a non-null object,
\* with the check of schema.required left out
SchemaErrorsSkipsRequired(schema) ==
  PushIf(Get(schema, "type") # Text("object"), ErrType)
  \o PushIf(~Has(schema, "properties")
            \/ ~TypeofObject(Get(schema, "properties"))
            \/ Get(schema, "properties").t = "null", ErrProperties)
  \o PushIf(Get(schema, "additionalProperties") # Bool(FALSE), ErrAdditional)

\* the same checks, with the additionalProperties violation pushed twice
SchemaErrorsRepeatsAdditional(schema) ==
  PushIf(Get(schema, "type") # Text("object"), ErrType)
  \o PushIf(~Has(schema, "properties")
            \/ ~TypeofObject(Get(schema, "properties"))
            \/ Get(schema, "properties").t = "null", ErrProperties)
  \o PushIf(~Has(schema, "required") \/ ~IsArray(Get(schema, "required")), ErrRequired)
  \o PushIf(Get(schema, "additionalProperties") # Bool(FALSE), ErrAdditional)
  \o PushIf(Get(schema, "additionalProperties") # Bool(FALSE), ErrAdditional)

\* the checks of validateResponseFormat on a schema that is a non-null object
SchemaErrors(schema) ==
  PushIf(Get(schema, "type") # Text("object"), ErrType)
  \o PushIf(~Has(schema, "properties")
            \/ ~TypeofObject(Get(schema, "properties"))
            \/ Get(schema, "properties").t = "null", ErrProperties)
  \o PushIf(~Has(schema, "required") \/ ~IsArray(Get(schema, "required")), ErrRequired)
  \o PushIf(Get(schema, "additionalProperties") # Bool(FALSE), ErrAdditional)

\* validateResponseFormat(respFormat): the array of violation messages
validateResponseFormat(respFormat) ==
  IF ~TypeofObject(respFormat) \/ respFormat.t = "null" THEN Arr(<<ErrNotObject>>)
  ELSE Arr(
    PushIf(~Has(respFormat, "name"), ErrName)
    \o PushIf(Get(respFormat, "strict") # Bool(TRUE), ErrStrict)
    \o (IF ~Has(respFormat, "schema") \/ ~TypeofObject(Get(respFormat, "schema"))
           \/ Get(respFormat, "schema").t = "null"
        THEN <<ErrSchema>>
        ELSE SchemaErrors(Get(respFormat, "schema"))))

\* buildProviderMessage(providerName, role, content): a one-element array
buildProviderMessage(providerName, role, content) ==
  CASE providerName \in {"Mistral", "Anthropic", "GeminiViaOpenAI", "OpenAI"} ->
         Arr(<<Obj(<<<<"role", role>>, <<"content", content>>>>)>>)
    [] providerName = "Gemini" ->
         IF content.t = "str"
         THEN Arr(<<Obj(<<<<"parts", Arr(<<Obj(<<<<"text", content>>>>)>>)>>,
                          <<"role", Text("user")>>>>)>>)
         ELSE Arr(<<Obj(<<<<"parts", content>>, <<"role", Text("user")>>>>)>>)
    [] OTHER -> Throw(Str(<<W("Unsupported provider: "), W(providerName)>>))

ErrInvalidMessage ==
  Text("Invalid message format: each message must be a [role, content] tuple or an object with role and content.")

ErrInvalidPrompt ==
  Text("Prompt must be a string or an array of messages or role/content tuples.")

\* the callback with its final throw replaced by passing the item through
buildMessageItemLenient(providerName, item) ==
  IF IsArray(item) /\ Len(item.v) = 2
  THEN At(buildProviderMessage(providerName, item.v[1], item.v[2]), 0)
  ELSE item

\* the callback of prompt.map in buildMessages
buildMessageItem(providerName, item) ==
  IF IsArray(item) /\ Len(item.v) = 2
  THEN At(buildProviderMessage(providerName, item.v[1], item.v[2]), 0)
  ELSE IF TypeofObject(item)
       THEN (IF item.t = "null" THEN Throw(TypeError)
             ELSE IF Has(item, "role") /\ Has(item, "content") THEN item
             ELSE Throw(ErrInvalidMessage))
       ELSE Throw(ErrInvalidMessage)

\* buildMessages(providerName, prompt): an array of messages, or the first error
buildMessages(providerName, prompt) ==
  IF prompt.t = "str" THEN buildProviderMessage(providerName, Text("user"), prompt)
  ELSE IF IsArray(prompt)
       THEN LET items == [i \in 1..Len(prompt.v) |-> buildMessageItem(providerName, prompt.v[i])]
                bad == {i \in 1..Len(items) : IsThrow(items[i])}
            IN IF bad = {} THEN Arr(items)
               ELSE items[CHOOSE i \in bad : \A j \in bad : i <= j]
       ELSE Throw(ErrInvalidPrompt)

\* basePayload(params)
basePayload(params) ==
  Obj(<<<<"url", EmptyStr>>,
        <<"method", Text("POST")>>,
        <<"headers", Obj(<<<<"Content-Type", Text("application/json")>>>>)>>,
        <<"payload", Obj(<<>>)>>,
        <<"debugPrompt", Or(Get(params, "debugPrompt"), Bool(FALSE))>>,
        <<"debugResponse", Or(Get(params, "debugResponse"), Bool(FALSE))>>>>)

\* the defaults of buildRequest
DefaultMaxTokensOpenAI == 1000

DefaultMaxTokensAnthropic == 1024

DefaultMaxTokensGeminiViaOpenAI == 1000

\* the OpenAI embedding replaced by the bare flag of another adapter
JsonSchemaFormatBare(responseFormat) == Obj(<<<<"type", Text("json_object")>>>>)

\* request.payload.response_format = { json_schema: ..., type: 'json_schema' }
JsonSchemaFormat(responseFormat) ==
  Obj(<<<<"json_schema", responseFormat>>, <<"type", Text("json_schema")>>>>)

\* payload.generationConfig = payload.generationConfig || {}; generationConfig.k = val
SetGenerationConfig(payload, k, val) ==
  Set(payload, "generationConfig",
      Set(Or(Get(payload, "generationConfig"), Obj(<<>>)), k, val))

\* the Gemini payload of buildRequest
GeminiPayload(messages, params) ==
  LET p0 == Obj(<<<<"contents", messages>>>>)
      p1 == IF Truthy(Get(params, "max_tokens"))
            THEN SetGenerationConfig(p0, "maxOutputTokens", Get(params, "max_tokens"))
            ELSE p0
  IN IF Truthy(Get(params, "responseFormat"))
     THEN SetGenerationConfig(
            SetGenerationConfig(p1, "responseMimeType", Text("application/json")),
            "responseSchema",
            convertResponseFormatForGemini(Get(params, "responseFormat")))
     ELSE p1

\* every header written under the name of the dedicated API-key header
SetHeaderAsApiKey(request, k, val) ==
  Set(request, "headers", Set(Get(request, "headers"), "x-api-key", val))

\* request.headers.k = val
SetHeader(request, k, val) == Set(request, "headers", Set(Get(request, "headers"), k, val))

\* buildRequest(providerName, apiKey, baseUrl, messages, params)
buildRequest(providerName, apiKey, baseUrl, messages, params) ==
  LET request == basePayload(params)
      bearer == Concat(Text("Bearer "), apiKey)
      withFormat(payload, fmt) ==
        IF Truthy(Get(params, "responseFormat"))
        THEN Set(payload, "response_format", fmt)
        ELSE payload
  IN
  CASE providerName = "OpenAI" ->
         Set(SetHeader(Set(request, "url", finalApiUrl(baseUrl, Text("/v1/chat/completions"))),
                       "Authorization", bearer),
             "payload",
             withFormat(Obj(<<<<"model", Or(Get(params, "model"), Text("gpt-4o"))>>,
                              <<"messages", messages>>,
                              <<"max_tokens", Or(Get(params, "max_tokens"),
                                                 Num(DefaultMaxTokensOpenAI))>>>>),
                        JsonSchemaFormat(Get(params, "responseFormat"))))
    [] providerName = "Anthropic" ->
         Set(SetHeader(SetHeader(Set(request, "url", finalApiUrl(baseUrl, Text("/v1/messages"))),
                                 "x-api-key", apiKey),
                       "anthropic-version", Text("2023-06-01")),
             "payload",
             Obj(<<<<"model", Or(Get(params, "model"), Text("claude-3-5-sonnet-20241022"))>>,
                   <<"max_tokens", Or(Get(params, "max_tokens"),
                                      Num(DefaultMaxTokensAnthropic))>>,
                   <<"messages", messages>>>>))
    [] providerName = "Gemini" ->
         Set(Set(request, "url",
                 Concat(Concat(finalApiUrl(baseUrl, EmptyStr), Text("?key=")), apiKey)),
             "payload", GeminiPayload(messages, params))
    [] providerName = "Mistral" ->
         Set(SetHeader(SetHeader(Set(request, "url",
                                     finalApiUrl(baseUrl, Text("/v1/chat/completions"))),
                                 "Authorization", bearer),
                       "Accept", Text("application/json")),
             "payload",
             withFormat(Obj(<<<<"model", Or(Get(params, "model"), Text("mistral-large-latest"))>>,
                              <<"messages", messages>>>>),
                        Obj(<<<<"type", Text("json_object")>>>>)))
    [] providerName = "GeminiViaOpenAI" ->
         Set(SetHeader(Set(request, "url", finalApiUrl(baseUrl, EmptyStr)),
                       "Authorization", bearer),
             "payload",
             withFormat(Obj(<<<<"model", Or(Get(params, "model"), Text("gemini-2.0-flash"))>>,
                              <<"messages", messages>>,
                              <<"max_tokens", Or(Get(params, "max_tokens"),
                                                 Num(DefaultMaxTokensGeminiViaOpenAI))>>>>),
                        JsonSchemaFormat(Get(params, "responseFormat"))))
    [] OTHER -> Throw(Str(<<W("Unsupported provider: "), W(providerName)>>))

(***************************************************************************)
(* createProvider: the closures of one provider instance                   *)
(***************************************************************************)
\* providerSupportsJSON with the second native-JSON provider forgotten
providerSupportsJSONOnlyOpenAI(providerName) == providerName = "OpenAI"

\* providerSupportsJSON
providerSupportsJSON(providerName) == providerName \in {"OpenAI", "GeminiViaOpenAI"}

\* contexts.push({ key: noun, context: data })
PushContext(contexts, noun, data) == Append(contexts, [key |-> noun, context |-> data])

\* c ? a : b, where evaluating c may have thrown
Cond(c, a, b) == IF IsThrow(c) THEN c ELSE IF Truthy(c) THEN a ELSE b

\* the property name a value stands for in o[value]
PropertyKey(x) ==
  IF x.t = "str" /\ Len(x.v) = 1 /\ x.v[1][1] = "w" THEN x.v[1][2]
  ELSE IF x.t = "undef" THEN "undefined"
  ELSE IF x.t = "null" THEN "null"
  ELSE ""

\* response.choices && response.choices[0].message ? response.choices[0].message.content : ""
extractChoiceContent(response) ==
  LET choices == Get(response, "choices") IN
  Cond(And(choices, Get(At(choices, 0), "message")),
       Get(Get(At(choices, 0), "message"), "content"),
       EmptyStr)

\* extractContent(response)
extractContent(providerName, response) ==
  CASE providerName \in {"OpenAI", "GeminiViaOpenAI", "Mistral"} ->
         extractChoiceContent(response)
    [] providerName = "Anthropic" ->
         LET content == Get(response, "content")
             first == At(content, 0)
         IN Cond(And(content, first),
                 LET block == Get(first, PropertyKey(Get(first, "type"))) IN
                 IF IsThrow(block) THEN block ELSE Or(block, EmptyStr),
                 EmptyStr)
    [] providerName = "Gemini" ->
         LET candidates == Get(response, "candidates")
             candidate == And(candidates, At(candidates, 0))
             parts == Get(Get(candidate, "content"), "parts")
         IN Cond(And(And(candidate, Get(candidate, "content")), At(parts, 0)),
                 Get(At(parts, 0), "text"),
                 EmptyStr)
    [] OTHER -> EmptyStr

\* the property names every object literal inherits from Object.prototype
ObjectPrototypeKeys ==
  {"constructor", "toString", "toLocaleString", "valueOf", "hasOwnProperty",
   "isPrototypeOf", "propertyIsEnumerable", "__proto__"}

RECURSIVE GroupContexts(_, _, _)
\* contexts.reduce(...): the entries from index i on, grouped by key into acc.
\* acc[key] reads an own property or, failing that, an inherited one: an
\* inherited one is truthy, so no array is created, and it has no push.
GroupContexts(contexts, i, acc) ==
  IF i > Len(contexts) THEN acc
  ELSE LET key == contexts[i].key
           old == IF Truthy(Get(acc, key)) THEN Get(acc, key) ELSE Arr(<<>>)
       IN IF ~Has(acc, key) /\ key \in ObjectPrototypeKeys
          THEN Throw(TypeError)
          ELSE GroupContexts(contexts, i + 1,
                             Set(acc, key, Arr(Append(old.v, contexts[i].context))))

\* the message serializeContext puts in front of the others
ContextMessage(providerName, contexts) ==
  LET text == JSONstringify(GroupContexts(contexts, 1, Obj(<<>>))) IN
  IF providerName = "Gemini"
  THEN Obj(<<<<"role", Text("user")>>, <<"parts", Arr(<<Obj(<<<<"text", text>>>>)>>)>>>>)
  ELSE Obj(<<<<"role", Text("user")>>, <<"content", text>>>>)

\* serializeContext with the context message put after the caller's messages
serializeContextAppends(providerName, contexts, messages) ==
  IF Len(contexts) < 1 THEN messages
  ELSE IF IsThrow(GroupContexts(contexts, 1, Obj(<<>>)))
       THEN GroupContexts(contexts, 1, Obj(<<>>))
  ELSE Arr(messages.v \o <<ContextMessage(providerName, contexts)>>)

\* serializeContext(messages): the messages array after the call, or the
\* error the reduce raised
serializeContext(providerName, contexts, messages) ==
  IF Len(contexts) < 1 THEN messages
  ELSE IF IsThrow(GroupContexts(contexts, 1, Obj(<<>>)))
       THEN GroupContexts(contexts, 1, Obj(<<>>))
  ELSE Arr(<<ContextMessage(providerName, contexts)>> \o messages.v)

\* extractJSON without the coercion
extractJSONNoCoercion(content, coerceJSON) == content

\* extractJSON without the catch: a parse failure is raised to the caller
extractJSONRethrows(content, coerceJSON) ==
  IF Truthy(coerceJSON) THEN JSONparse(content) ELSE content

\* extractJSON(content, coerceJSON)
extractJSON(content, coerceJSON) ==
  IF Truthy(coerceJSON)
  THEN LET parsed == JSONparse(content) IN
       IF IsThrow(parsed) THEN content ELSE parsed
  ELSE content

\* the two entries callCompletion adds for a provider without JSON support
SchemaLabel == "RESPOND WITH THIS SCHEMA"

DirectiveLabel == "RESPONSE DIRECTIVE"

DirectiveText ==
  Text("Please output only the raw JSON without markdown formatting (NO backticks or language directive), explanation, or commentary")

\* AddDirective skipped when the store already holds a directive
AddDirectiveOnce(contexts, responseFormat) ==
  IF \E i \in 1..Len(contexts) : contexts[i].key = DirectiveLabel
  THEN contexts
  ELSE PushContext(PushContext(contexts, SchemaLabel, JSONstringify(responseFormat)),
                   DirectiveLabel, DirectiveText)

\* AddDirective with the two addContext calls in the other order
AddDirectiveReversed(contexts, responseFormat) ==
  PushContext(PushContext(contexts, DirectiveLabel, DirectiveText),
              SchemaLabel, JSONstringify(responseFormat))

AddDirective(contexts, responseFormat) ==
  PushContext(PushContext(contexts, SchemaLabel, JSONstringify(responseFormat)),
              DirectiveLabel, DirectiveText)

\* executeRequest with the debugPrompt short-circuit left out: the request is
\* sent whatever the flag says
executeRequestAlwaysSends(providerName, requestObject, params, env) ==
  LET r == WebRequest(requestObject, env)
      response == IF IsThrow(r)
                  THEN Obj(<<<<"status", Text("failure")>>, <<"request", requestObject>>,
                             <<"message", r.v>>>>)
                  ELSE r
      web == <<WebCall(requestObject, env)>>
  IN IF Truthy(Get(requestObject, "debugPrompt")) THEN [val |-> requestObject, web |-> web]
     ELSE IF Truthy(Get(requestObject, "debugResponse")) THEN [val |-> response, web |-> web]
     ELSE LET content == extractContent(providerName, response) IN
          [val |-> IF IsThrow(content) THEN content
                   ELSE extractJSON(content, Or(Get(params, "responseFormat"), Bool(FALSE))),
           web |-> web]

\* executeRequest with the debugResponse return left out: the response always
\* goes through extractContent and extractJSON
executeRequestAlwaysExtracts(providerName, requestObject, params, env) ==
  LET sent == IF ~Truthy(Get(requestObject, "debugPrompt"))
              THEN performRequest(requestObject, env)
              ELSE [val |-> requestObject, web |-> <<>>]
      response == sent.val
  IN IF Truthy(Get(requestObject, "debugPrompt"))
     THEN [val |-> response, web |-> sent.web]
     ELSE LET content == extractContent(providerName, response) IN
          [val |-> IF IsThrow(content) THEN content
                   ELSE extractJSON(content, Or(Get(params, "responseFormat"), Bool(FALSE))),
           web |-> sent.web]

\* the part of callCompletion after the request is built:
\* performRequest, then the debug returns or extractJSON(extractContent(...))
executeRequest(providerName, requestObject, params, env) ==
  LET sent == IF ~Truthy(Get(requestObject, "debugPrompt"))
              THEN performRequest(requestObject, env)
              ELSE [val |-> requestObject, web |-> <<>>]
      response == sent.val
  IN IF Truthy(Get(requestObject, "debugResponse")) \/ Truthy(Get(requestObject, "debugPrompt"))
     THEN [val |-> response, web |-> sent.web]
     ELSE LET content == extractContent(providerName, response) IN
          [val |-> IF IsThrow(content) THEN content
                   ELSE extractJSON(content, Or(Get(params, "responseFormat"), Bool(FALSE))),
           web |-> sent.web]

\* the outcome of a call that ends before a request is built
Ended(val, contexts) == [val |-> val, contexts |-> contexts, web |-> <<>>, built |-> Undef]

\* callCompletion(prompt, params) on an instance with the given closure state:
\*   val      the value returned, or the error thrown
\*   contexts the context store after the call
\*   web      the web_request invocations made
\*   built    the request object built, undefined when none was
callCompletion(providerName, apiKey, baseUrl, contexts, prompt, params0, env) ==
  IF ~Truthy(apiKey)
  THEN Ended(Throw(Str(<<W("No API key set for "), W(providerName), W(".")>>)), contexts)
  ELSE
    LET params == Or(params0, Obj(<<>>))
        messages == buildMessages(providerName, prompt)
        responseFormat == Get(params, "responseFormat")
        errors == validateResponseFormat(responseFormat)
        contexts1 == IF Truthy(responseFormat) /\ ~providerSupportsJSON(providerName)
                     THEN AddDirective(contexts, responseFormat)
                     ELSE contexts
        serialized == serializeContext(providerName, contexts1, messages)
        requestObject == buildRequest(providerName, apiKey, baseUrl, serialized, params)
        done == executeRequest(providerName, requestObject, params, env)
    IN
    IF IsThrow(messages) THEN Ended(messages, contexts)
    ELSE IF Truthy(responseFormat) /\ providerSupportsJSON(providerName) /\ Len(errors.v) > 0
         THEN Ended(errors, contexts)
    ELSE IF IsThrow(serialized) THEN Ended(serialized, contexts1)
    ELSE [val |-> done.val, contexts |-> contexts1, web |-> done.web, built |-> requestObject]

\* prompt.map with the items converted in the caller's own array
mapInPlace(prompt) == IsArray(prompt)

\* whether the array prompt.map(...) returns is the caller's array: map
\* creates a new one
mapSharesArray(prompt) == FALSE

\* the caller's prompt value once callCompletion(prompt, params) has ended:
\* messages.unshift in serializeContext changes the array buildMessages
\* returned, in place
promptAfterCompletion(providerName, apiKey, contexts, prompt, params0) ==
  IF ~Truthy(apiKey) THEN prompt
  ELSE
    LET params == Or(params0, Obj(<<>>))
        messages == buildMessages(providerName, prompt)
        responseFormat == Get(params, "responseFormat")
        errors == validateResponseFormat(responseFormat)
        contexts1 == IF Truthy(responseFormat) /\ ~providerSupportsJSON(providerName)
                     THEN AddDirective(contexts, responseFormat)
                     ELSE contexts
        serialized == serializeContext(providerName, contexts1, messages)
    IN
    IF IsThrow(messages) \/ ~mapSharesArray(prompt) THEN prompt
    ELSE IF Truthy(responseFormat) /\ providerSupportsJSON(providerName) /\ Len(errors.v) > 0
         THEN messages
    ELSE IF IsThrow(serialized) THEN messages
    ELSE serialized

(***************************************************************************)
(* createProvider: image analysis                                          *)
(***************************************************************************)
\* the capability check with Anthropic let through
ImageProvidersAndAnthropic == {"Mistral", "OpenAI", "Gemini", "Anthropic"}

\* the providers callImageAnalysis lets through
ImageProviders == {"Mistral", "OpenAI", "Gemini"}

\* buildTextAttachment with the caption left out
buildTextAttachmentNoText(providerName, prompt) == Obj(<<<<"type", Text("text")>>>>)

\* buildTextAttachment(providerName, prompt)
buildTextAttachment(providerName, prompt) ==
  CASE providerName \in {"OpenAI", "Mistral"} ->
         Obj(<<<<"type", Text("text")>>, <<"text", prompt>>>>)
    [] providerName = "Gemini" -> Obj(<<<<"text", prompt>>>>)
    [] OTHER -> Undef

\* the character "." is its own token in a URL
Dot == W(".")

\* the runs of characters of the model's URLs that match [a-z0-9]+ with flag i
AlnumRuns ==
  {"png", "jpg", "jpeg", "webp", "heic", "heif", "gif", "PNG", "Jpeg", "constructor", "top"}

\* ext.toLowerCase()
toLowerCase(s) ==
  CASE s = "PNG" -> "png"
    [] s = "Jpeg" -> "jpeg"
    [] OTHER -> s

\* a function object, such as the Object constructor
Function(name) == [t |-> "function", v |-> name]

\* extensionToMime[ext]: an own property of the object literal or, failing
\* that, the property of that name inherited from Object.prototype
extensionToMime(ext) ==
  CASE ext = "png" -> Text("image/png")
    [] ext \in {"jpg", "jpeg"} -> Text("image/jpeg")
    [] ext = "webp" -> Text("image/webp")
    [] ext = "heic" -> Text("image/heic")
    [] ext = "heif" -> Text("image/heif")
    [] ext \in ObjectPrototypeKeys -> Function(ext)
    [] OTHER -> Undef

\* url.match(/\.([a-z0-9]+)(?:[\?#]|$)/i): the position of the dot of the
\* leftmost match, 0 when there is none
ExtensionMatch(toks) ==
  LET hits == {i \in 1..(Len(toks) - 1) :
                 /\ toks[i] = Dot
                 /\ toks[i + 1][1] = "w"
                 /\ toks[i + 1][2] \in AlnumRuns
                 /\ (i + 1 = Len(toks) \/ toks[i + 2] \in {W("?"), W("#")})}
  IN IF hits = {} THEN 0 ELSE CHOOSE i \in hits : \A j \in hits : i <= j

\* guessMimeType(url)
guessMimeType(url) ==
  IF url.t # "str" THEN Throw(TypeError)
  ELSE IF ExtensionMatch(url.v) = 0 THEN Text("unknown")
  ELSE Or(extensionToMime(toLowerCase(url.v[ExtensionMatch(url.v) + 1][2])),
          Text("unknown"))

\* the injected download_file_base64(url) primitive: env says whether this
\* invocation throws; what it returns stands for the bytes behind the URL
DownloadFileBase64(url, env) ==
  IF env.fetchThrows THEN Throw(Text("download failed"))
  ELSE Str(<<W("base64 of ")>> \o ToStringToks(url))

\* buildImageAttachment with Mistral downloading the image as Gemini does
buildImageAttachmentMistralInline(providerName, imageUrl, env) ==
  CASE providerName = "OpenAI" ->
         [val |-> Obj(<<<<"type", Text("image_url")>>,
                        <<"image_url", Obj(<<<<"url", imageUrl>>>>)>>>>),
          fetched |-> <<>>]
    [] providerName = "Mistral" ->
         [val |-> IF IsThrow(DownloadFileBase64(imageUrl, env))
                  THEN DownloadFileBase64(imageUrl, env)
                  ELSE Obj(<<<<"type", Text("image_url")>>,
                             <<"image_url", DownloadFileBase64(imageUrl, env)>>>>),
          fetched |-> <<imageUrl>>]
    [] providerName = "Gemini" ->
         IF IsThrow(guessMimeType(imageUrl))
         THEN [val |-> guessMimeType(imageUrl), fetched |-> <<>>]
         ELSE [val |-> IF IsThrow(DownloadFileBase64(imageUrl, env))
                       THEN DownloadFileBase64(imageUrl, env)
                       ELSE Obj(<<<<"inline_data",
                                    Obj(<<<<"mime_type", guessMimeType(imageUrl)>>,
                                          <<"data", DownloadFileBase64(imageUrl, env)>>>>)>>>>),
               fetched |-> <<imageUrl>>]
    [] OTHER -> [val |-> Undef, fetched |-> <<>>]

\* buildImageAttachment(providerName, imageUrl):
\*   [val |-> the attachment or the error raised, fetched |-> the URLs downloaded]
buildImageAttachment(providerName, imageUrl, env) ==
  CASE providerName = "OpenAI" ->
         [val |-> Obj(<<<<"type", Text("image_url")>>,
                        <<"image_url", Obj(<<<<"url", imageUrl>>>>)>>>>),
          fetched |-> <<>>]
    [] providerName = "Mistral" ->
         [val |-> Obj(<<<<"type", Text("image_url")>>, <<"image_url", imageUrl>>>>),
          fetched |-> <<>>]
    [] providerName = "Gemini" ->
         IF IsThrow(guessMimeType(imageUrl))
         THEN [val |-> guessMimeType(imageUrl), fetched |-> <<>>]
         ELSE [val |-> IF IsThrow(DownloadFileBase64(imageUrl, env))
                       THEN DownloadFileBase64(imageUrl, env)
                       ELSE Obj(<<<<"inline_data",
                                    Obj(<<<<"mime_type", guessMimeType(imageUrl)>>,
                                          <<"data", DownloadFileBase64(imageUrl, env)>>>>)>>>>),
               fetched |-> <<imageUrl>>]
    [] OTHER -> [val |-> Undef, fetched |-> <<>>]

\* defaultImageModel(providerName)
defaultImageModel(providerName) ==
  CASE providerName = "OpenAI" -> Text("gpt-4o")
    [] providerName = "Mistral" -> Text("pixtral-12b-2409")
    [] providerName = "Gemini" -> Text("gemini-2.0-flash")
    [] OTHER -> Undef

RECURSIVE FetchedBy(_, _)
\* the downloads made by the first n attachments, in order
FetchedBy(attachments, n) ==
  IF n = 0 THEN <<>> ELSE FetchedBy(attachments, n - 1) \o attachments[n].fetched

ErrNotArray == Text("Image URLs must be provided as an array.")

\* `Image analysis is not currently supported for ${providerName}.`
ErrUnsupportedImages(providerName) ==
  Str(<<W("Image analysis is not currently supported for "), W(providerName), W(".")>>)

\* one invocation of an injected primitive: its name and the URL it was given
IoEvent(primitive, url) == <<primitive, url>>

\* the invocations of one callImageAnalysis or callCompletion in the order the
\* statements make them: the downloads of imageUrls.map, then the web_request
\* of callCompletion
IoTrace(fetched, web) ==
  [i \in 1..Len(fetched) |-> IoEvent("download_file_base64", fetched[i])]
  \o [i \in 1..Len(web) |-> IoEvent("web_request", web[i].url)]

\* the outcome of callCompletion together with the downloads made before it
WithFetched(out, fetched) ==
  [val |-> out.val, contexts |-> out.contexts, web |-> out.web, built |-> out.built,
   fetched |-> fetched]

\* callImageAnalysis(imageUrls, prompt, params): the outcome of callCompletion
\* on the image and text tuples, with the downloads made on the way
callImageAnalysis(providerName, apiKey, baseUrl, contexts, imageUrls, prompt, params0, env) ==
  IF ~IsArray(imageUrls)
  THEN [val |-> Throw(ErrNotArray), contexts |-> contexts, web |-> <<>>,
        built |-> Undef, fetched |-> <<>>]
  ELSE IF providerName \notin ImageProviders
  THEN [val |-> Throw(ErrUnsupportedImages(providerName)), contexts |-> contexts,
        web |-> <<>>, built |-> Undef, fetched |-> <<>>]
  ELSE
    LET params1 == Or(params0, Obj(<<>>))
        params == Set(params1, "model",
                      Or(Get(params1, "model"), defaultImageModel(providerName)))
        attachments == [i \in 1..Len(imageUrls.v) |->
                          buildImageAttachment(providerName, imageUrls.v[i], env)]
        failed == {i \in 1..Len(attachments) : IsThrow(attachments[i].val)}
        firstFailed == CHOOSE i \in failed : \A j \in failed : i <= j
        imageMessageTuples ==
          [i \in 1..Len(attachments) |->
             Arr(<<Text("user"), Arr(<<attachments[i].val>>)>>)]
          \o <<Arr(<<Text("user"), Arr(<<buildTextAttachment(providerName, prompt)>>)>>)>>
    IN IF failed # {}
       THEN [val |-> attachments[firstFailed].val, contexts |-> contexts, web |-> <<>>,
             built |-> Undef, fetched |-> FetchedBy(attachments, firstFailed)]
       ELSE WithFetched(callCompletion(providerName, apiKey, baseUrl, contexts,
                                       Arr(imageMessageTuples), params, env),
                        FetchedBy(attachments, Len(attachments)))

(***************************************************************************)
(* createProductHelper (src/ai_helpers/product_helper.js)                  *)
(***************************************************************************)
\* x.length
Length(x) ==
  CASE IsThrow(x) -> x
    [] x.t \in {"undef", "null"} -> Throw(TypeError)
    [] x.t \in {"arr", "str"} -> Num(Len(x.v))
    [] OTHER -> Undef

\* x.length > 0, for an x whose length can be read
LengthPositive(x) == Length(x).t = "num" /\ Length(x).v > 0

\* results.concat(v): the elements of an array, or the value itself
ConcatValue(results, v) == IF v.t = "arr" THEN results \o v.v ELSE Append(results, v)

RECURSIVE ConcatAll(_, _)
\* the sequences seqs[i], seqs[i + 1], ... one after the other
ConcatAll(seqs, i) == IF i > Len(seqs) THEN <<>> ELSE seqs[i] \o ConcatAll(seqs, i + 1)

\* the default source with the flat object tried before the collections
defaultSourcePrefersObject(entity) ==
  IF Truthy(Get(entity, "property_values")) THEN Text("object")
  ELSE IF Truthy(Get(entity, "property_value_collections"))
          /\ LengthPositive(Get(entity, "property_value_collections"))
       THEN Text("collections")
  ELSE IF Truthy(Get(entity, "property_values_snapshot"))
          /\ LengthPositive(Get(entity, "property_values_snapshot"))
       THEN Text("snapshot")
  ELSE Text("object")

\* the source chosen when options.source is not given
defaultSource(entity) ==
  IF Truthy(Get(entity, "property_value_collections"))
     /\ LengthPositive(Get(entity, "property_value_collections"))
  THEN Text("collections")
  ELSE IF Truthy(Get(entity, "property_values")) THEN Text("object")
  ELSE IF Truthy(Get(entity, "property_values_snapshot"))
          /\ LengthPositive(Get(entity, "property_values_snapshot"))
       THEN Text("snapshot")
  ELSE Text("object")

\* the `continue` conditions of the loop over property_value_collections
SkipsCollection(col, options) ==
  \/ /\ Truthy(Get(options, "name"))
     /\ Truthy(Get(col, "property"))
     /\ Get(Get(col, "property"), "external_id") # Get(options, "name")
  \/ /\ Truthy(Get(options, "id"))
     /\ Truthy(Get(col, "property"))
     /\ Get(Get(col, "property"), "id") # Get(options, "id")
  \/ Truthy(Get(options, "dataType")) /\ Get(col, "value_data_type") # Get(options, "dataType")
  \/ Truthy(Get(options, "locale")) /\ Get(col, "locale_id") # Get(options, "locale")

\* the `continue` conditions of the loop over the keys of property_values
SkipsKey(key, options) ==
  \/ Truthy(Get(options, "name")) /\ Text(key) # Get(options, "name")
  \/ Truthy(Get(options, "dataType"))

\* the `continue` conditions of the loop over property_values_snapshot
SkipsSnapshot(snap, options) ==
  \/ Truthy(Get(options, "id")) /\ Get(snap, "property_id") # Get(options, "id")
  \/ Truthy(Get(options, "dataType")) /\ Get(snap, "data_type") # Get(options, "dataType")
  \/ Truthy(Get(options, "locale")) /\ Get(snap, "locale_id") # Get(options, "locale")

\* if (x.values && x.values.length > 0) results = results.concat(x.values)
ValuesToConcat(x) ==
  IF Truthy(Get(x, "values")) /\ LengthPositive(Get(x, "values"))
  THEN ConcatValue(<<>>, Get(x, "values"))
  ELSE <<>>

\* the results array when the loops are done, or the TypeError of reading
\* .length of a list that is not there
CollectResults(entity, source, options) ==
  CASE source = Text("collections") ->
         LET collections == Get(entity, "property_value_collections") IN
         IF IsThrow(Length(collections)) THEN Length(collections)
         ELSE IF collections.t # "arr" THEN Arr(<<>>)
         ELSE Arr(ConcatAll([i \in 1..Len(collections.v) |->
                               IF SkipsCollection(collections.v[i], options) THEN <<>>
                               ELSE ValuesToConcat(collections.v[i])], 1))
    [] source = Text("object") ->
         LET propVals == Get(entity, "property_values") IN
         IF propVals.t # "obj" THEN Arr(<<>>)
         ELSE Arr(ConcatAll([i \in 1..Len(propVals.v) |->
                               IF SkipsKey(propVals.v[i][1], options) THEN <<>>
                               ELSE ConcatValue(<<>>, propVals.v[i][2])], 1))
    [] source = Text("snapshot") ->
         LET snapshots == Get(entity, "property_values_snapshot") IN
         IF IsThrow(Length(snapshots)) THEN Length(snapshots)
         ELSE IF snapshots.t # "arr" THEN Arr(<<>>)
         ELSE Arr(ConcatAll([j \in 1..Len(snapshots.v) |->
                               IF SkipsSnapshot(snapshots.v[j], options) THEN <<>>
                               ELSE ValuesToConcat(snapshots.v[j])], 1))
    [] OTHER -> Arr(<<>>)

\* propertyValues(options) of the helper created for context
propertyValues(context, options0) ==
  LET options == Or(options0, Obj(<<>>))
      entity == Get(context, "entity")
      source == IF Truthy(Get(options, "source")) THEN Get(options, "source")
                ELSE defaultSource(entity)
      results == CollectResults(entity, source, options)
  IN IF IsThrow(results) THEN results
     ELSE IF Truthy(Get(options, "first")) /\ Len(results.v) > 0 THEN results.v[1]
     ELSE results

(***************************************************************************)
(* The state of one provider instance and of its most recent operation     *)
(***************************************************************************)
VARIABLES
  providerName,  \* the adapter bound at construction
  apiKey,        \* closure variable apiKey
  baseUrl,       \* closure variable baseUrl
  contexts,      \* closure variable contexts: sequence of [key, context]
  call,          \* the operation that has just returned to the calling script:
                 \* its name, arguments and the context store it started
                 \* from; op is "idle" once the script has taken the result
  result,        \* what that operation returned, or the error it threw
  webLog,        \* the web_request invocations that operation made
  built,         \* the request object that operation built (undefined if none)
  fetchLog,      \* the URLs that operation passed to download_file_base64, in order
  ioLog,         \* the invocations of both injected primitives that operation
                 \* made, in the order it made them
  context        \* the workflow context createProductHelper was given
                 \* (undefined where no product helper is in play)

vars ==
  <<providerName, apiKey, baseUrl, contexts, call, result, webLog, built, fetchLog, ioLog,
    context>>

Providers == {"OpenAI", "Anthropic", "Gemini", "Mistral", "GeminiViaOpenAI"}

\* the factory functions of the object createSalsifyAI returns: baseUrl || default
DefaultBaseUrl(name) ==
  CASE name = "OpenAI" -> Text("https://api.openai.com")
    [] name = "Anthropic" -> Text("https://api.anthropic.com")
    [] name = "Gemini" ->
         Text("https://generativelanguage.googleapis.com/v1beta/models/gemini-1.5-flash:generateContent")
    [] name = "Mistral" -> Text("https://api.mistral.ai")
    [] name = "GeminiViaOpenAI" ->
         Text("https://generativelanguage.googleapis.com/v1beta/openai/chat/completions")

\* what an operation that returns providerObj returns
ProviderObj == [t |-> "providerObj", v |-> 0]

(***************************************************************************)
(* Bounds and the inputs the operations are called with                    *)
(***************************************************************************)
\* addContext is called only while the store holds fewer entries than this;
\* a call that injects the directive needs room for its two entries on top
MaxContexts == 2

TestKey == Text("testkey")

KeyArgs == {Undef, EmptyStr, TestKey}

\* a base URL given with one trailing slash
SlashUrl == Str(<<W("https://api.example.com"), Slash>>)

BaseUrlArgs == {Undef, SlashUrl}

\* a response format that passes validateResponseFormat, with a nested object
NestedFormat ==
  Obj(<<<<"name", Text("TestSchema")>>,
        <<"strict", Bool(TRUE)>>,
        <<"schema",
          Obj(<<<<"type", Text("object")>>,
                <<"properties",
                  Obj(<<<<"test",
                          Obj(<<<<"type", Text("object")>>,
                                <<"properties",
                                  Obj(<<<<"nested_key",
                                          Obj(<<<<"type", Text("string")>>>>)>>>>)>>,
                                <<"required", Arr(<<Text("nested_key")>>)>>,
                                <<"additionalProperties", Bool(FALSE)>>>>)>>>>)>>,
                <<"required", Arr(<<Text("test")>>)>>,
                <<"additionalProperties", Bool(FALSE)>>>>)>>>>)

\* the response format {} of the tests: truthy, and failing validation
EmptyFormat == Obj(<<>>)

CallFormats == {Undef, NestedFormat, EmptyFormat}

\* an object literal holding only the keys that are given
Params(debugPrompt, debugResponse, responseFormat) ==
  Obj((IF debugPrompt THEN <<<<"debugPrompt", Bool(TRUE)>>>> ELSE <<>>)
      \o (IF debugResponse THEN <<<<"debugResponse", Bool(TRUE)>>>> ELSE <<>>)
      \o (IF responseFormat # Undef THEN <<<<"responseFormat", responseFormat>>>> ELSE <<>>))

ParamSets ==
  {Undef} \cup {Params(dp, dr, rf) : dp \in BOOLEAN, dr \in BOOLEAN, rf \in CallFormats}

StringPrompt == Text("Test prompt")

TuplePrompt ==
  Arr(<<Arr(<<Text("assistant"), Text("Hello")>>),
        Arr(<<Text("user"), Text("How are you?")>>)>>)

Prompts == {StringPrompt, TuplePrompt, Num(42)}

\* context entries a caller adds
ContextArgs == {<<"Greeting", Obj(<<<<"msg", Text("Hello")>>>>)>>, <<"Footer", Text("Goodbye")>>}

\* the answer a provider gives, and its JSON text
AnswerObject == Obj(<<<<"test", Obj(<<<<"nested_key", Text("value")>>>>)>>, <<"n", Num(7)>>>>)

AnswerJSON == JSONstringify(AnswerObject)

AnswerPlain == Text("Why did the chicken cross the road?")

\* an answer cut off in the middle of its JSON text: {"test":
AnswerTruncated == Str(<<P("{"), <<"q", <<W("test")>>>>, P(":")>>)

\* the success envelope of each provider family around an answer text
Envelope(name, text) ==
  CASE name \in {"OpenAI", "GeminiViaOpenAI", "Mistral"} ->
         Obj(<<<<"choices", Arr(<<Obj(<<<<"message", Obj(<<<<"content", text>>>>)>>>>)>>)>>>>)
    [] name = "Anthropic" ->
         Obj(<<<<"content", Arr(<<Obj(<<<<"type", Text("text")>>, <<"text", text>>>>)>>)>>>>)
    [] name = "Gemini" ->
         Obj(<<<<"candidates",
                 Arr(<<Obj(<<<<"content",
                               Obj(<<<<"parts", Arr(<<Obj(<<<<"text", text>>>>)>>)>>>>)>>>>)>>)>>>>)

\* what web_request does when it is invoked: throw, or return a response
WebBehaviours(name) ==
  {[throws |-> TRUE, value |-> Text("connection refused")]}
  \cup {[throws |-> FALSE, value |-> r] :
          r \in {Envelope(name, AnswerJSON), Envelope(name, AnswerPlain),
                Envelope(name, AnswerTruncated), Obj(<<>>)}}

(***************************************************************************)
(* Init and the operations                                                 *)
(***************************************************************************)
NoCall(op, before) ==
  [op |-> op, images |-> Undef, prompt |-> Undef, params |-> Undef, env |-> Undef,
   before |-> before, promptAfter |-> Undef]

Idle == NoCall("idle", <<>>)

\* SalsifyAI.<name>Provider(apiKey, baseUrl) -> createProvider
Init ==
  /\ providerName \in Providers
  /\ apiKey \in {Or(k, EmptyStr) : k \in KeyArgs}
  /\ \E u \in BaseUrlArgs : baseUrl = Or(Or(u, DefaultBaseUrl(providerName)), EmptyStr)
  /\ contexts = <<>>
  /\ call = Idle
  /\ result = Undef
  /\ webLog = <<>>
  /\ built = Undef
  /\ fetchLog = <<>>
  /\ ioLog = <<>>
  /\ context = Undef

setApiKey(key) ==
  /\ call = Idle
  /\ apiKey' = key
  /\ call' = NoCall("setApiKey", contexts)
  /\ result' = ProviderObj
  /\ webLog' = <<>>
  /\ built' = Undef
  /\ fetchLog' = <<>>
  /\ ioLog' = <<>>
  /\ UNCHANGED <<context, providerName, baseUrl, contexts>>

setBaseUrl(url) ==
  /\ call = Idle
  /\ baseUrl' = url
  /\ call' = NoCall("setBaseUrl", contexts)
  /\ result' = ProviderObj
  /\ webLog' = <<>>
  /\ built' = Undef
  /\ fetchLog' = <<>>
  /\ ioLog' = <<>>
  /\ UNCHANGED <<context, providerName, apiKey, contexts>>

addContext(noun, data) ==
  /\ call = Idle
  /\ Len(contexts) < MaxContexts
  /\ contexts' = PushContext(contexts, noun, data)
  /\ call' = NoCall("addContext", contexts)
  /\ result' = ProviderObj
  /\ webLog' = <<>>
  /\ built' = Undef
  /\ fetchLog' = <<>>
  /\ ioLog' = <<>>
  /\ UNCHANGED <<context, providerName, apiKey, baseUrl>>

CallCompletion(prompt, params, env) ==
  LET out == callCompletion(providerName, apiKey, baseUrl, contexts, prompt, params, env) IN
  /\ call = Idle
  /\ Len(out.contexts) <= MaxContexts + 2
  /\ contexts' = out.contexts
  /\ call' = [op |-> "callCompletion", images |-> Undef, prompt |-> prompt, params |-> params,
              env |-> IF out.web = <<>> THEN Undef ELSE env.value, before |-> contexts,
              promptAfter |-> promptAfterCompletion(providerName, apiKey, contexts, prompt, params)]
  /\ result' = out.val
  /\ webLog' = out.web
  /\ built' = out.built
  /\ fetchLog' = <<>>
  /\ ioLog' = IoTrace(<<>>, out.web)
  /\ UNCHANGED <<context, providerName, apiKey, baseUrl>>

\* the synchronous operation has returned: the calling script takes the value
\* (`var response = provider.callCompletion(...)`) and goes on
ReturnToCaller ==
  /\ call # Idle
  /\ call' = Idle
  /\ result' = Undef
  /\ webLog' = <<>>
  /\ built' = Undef
  /\ fetchLog' = <<>>
  /\ ioLog' = <<>>
  /\ UNCHANGED <<context, providerName, apiKey, baseUrl, contexts>>

Next ==
  \/ \E key \in {EmptyStr, TestKey} : setApiKey(key)
  \/ \E url \in {SlashUrl, DefaultBaseUrl(providerName)} : setBaseUrl(url)
  \/ \E c \in ContextArgs : addContext(c[1], c[2])
  \/ \E prompt \in Prompts, params \in ParamSets, env \in WebBehaviours(providerName) :
       CallCompletion(prompt, params, env)
  \/ ReturnToCaller

Spec == Init /\ [][Next]_vars

(***************************************************************************)
(* validateResponseFormat on its own, over a space of response formats     *)
(***************************************************************************)
\* an object literal from optional members: a member is <<>> or <<<<key, value>>>>
Member(key, value) == <<<<key, value>>>>

Absent == <<>>

SchemaSpace ==
  {Obj(ty \o pr \o rq \o ad) :
     ty \in {Absent, Member("type", Text("object")), Member("type", Text("array"))},
     pr \in {Absent, Member("properties", Null), Member("properties", Obj(<<>>)),
             Member("properties", Arr(<<>>)),
             Member("properties", Obj(<<<<"output", Obj(<<<<"type", Text("string")>>>>)>>>>))},
     rq \in {Absent, Member("required", Arr(<<Text("output")>>)),
             Member("required", Text("output"))},
     ad \in {Absent, Member("additionalProperties", Bool(FALSE)),
             Member("additionalProperties", Bool(TRUE))}}

FormatSpace ==
  {Text("json"), Arr(<<>>)}
  \cup {Obj(nm \o st \o sc) :
          nm \in {Absent, Member("name", Text("desiredResponseFormat"))},
          st \in {Absent, Member("strict", Bool(TRUE)), Member("strict", Bool(FALSE)),
                  Member("strict", Text("true"))},
          sc \in {Absent, Member("schema", Null), Member("schema", Text("object"))}
                 \cup {Member("schema", sch) : sch \in SchemaSpace}}

InitValidate ==
  /\ providerName \in {"OpenAI", "GeminiViaOpenAI"}
  /\ apiKey = TestKey
  /\ baseUrl = DefaultBaseUrl(providerName)
  /\ contexts = <<>>
  /\ call = Idle
  /\ result = Undef
  /\ webLog = <<>>
  /\ built = Undef
  /\ fetchLog = <<>>
  /\ ioLog = <<>>
  /\ context = Undef

\* var errors = validateResponseFormat(params.responseFormat)
ValidateResponseFormat(respFormat) ==
  /\ call = Idle
  /\ call' = [op |-> "validateResponseFormat", images |-> Undef, prompt |-> Undef,
              params |-> respFormat,
              env |-> Undef, before |-> contexts,
              promptAfter |-> Undef]
  /\ result' = validateResponseFormat(respFormat)
  /\ webLog' = <<>>
  /\ built' = Undef
  /\ fetchLog' = <<>>
  /\ ioLog' = <<>>
  /\ UNCHANGED <<context, providerName, apiKey, baseUrl, contexts>>

NextValidate ==
  \/ \E respFormat \in FormatSpace : ValidateResponseFormat(respFormat)
  \/ ReturnToCaller

SpecValidate == InitValidate /\ [][NextValidate]_vars

(***************************************************************************)
(* callCompletion over a space of provider responses                       *)
(***************************************************************************)
\* responses in which each provider family's answer path is cut at every depth
ResponseSpace ==
  {Obj(ch \o co \o ca) :
     ch \in {Absent,
             Member("choices", Arr(<<>>)),
             Member("choices", Arr(<<Obj(<<>>)>>)),
             Member("choices", Arr(<<Obj(Member("message", Obj(<<>>)))>>)),
             Member("choices",
                    Arr(<<Obj(Member("message", Obj(Member("content", AnswerPlain))))>>))},
     co \in {Absent,
             Member("content", Arr(<<>>)),
             Member("content", Arr(<<Obj(Member("type", Text("text")))>>)),
             Member("content",
                    Arr(<<Obj(Member("type", Text("text")) \o Member("text", AnswerPlain))>>))},
     ca \in {Absent,
             Member("candidates", Arr(<<>>)),
             Member("candidates", Arr(<<Obj(<<>>)>>)),
             Member("candidates", Arr(<<Obj(Member("content", Obj(<<>>)))>>)),
             Member("candidates",
                    Arr(<<Obj(Member("content", Obj(Member("parts", Arr(<<>>)))))>>)),
             Member("candidates",
                    Arr(<<Obj(Member("content",
                                     Obj(Member("parts",
                                                Arr(<<Obj(Member("text", AnswerPlain))>>)))))>>))}}

\* SalsifyAI.<name>Provider("testkey")
InitResponses ==
  /\ providerName \in Providers
  /\ apiKey = TestKey
  /\ baseUrl = DefaultBaseUrl(providerName)
  /\ contexts = <<>>
  /\ call = Idle
  /\ result = Undef
  /\ webLog = <<>>
  /\ built = Undef
  /\ fetchLog = <<>>
  /\ ioLog = <<>>
  /\ context = Undef

NextResponses ==
  \/ \E response \in ResponseSpace :
       CallCompletion(StringPrompt, Undef, [throws |-> FALSE, value |-> response])
  \/ ReturnToCaller

SpecResponses == InitResponses /\ [][NextResponses]_vars

(***************************************************************************)
(* The context store under repeated and unusual labels                     *)
(***************************************************************************)
\* context entries with a label used twice with different values, and with a
\* label that names a property every object inherits
LabelArgs ==
  {<<"Greeting", Obj(<<<<"msg", Text("Hello")>>>>)>>,
   <<"Greeting", Text("Hi")>>,
   <<"Footer", Text("Goodbye")>>,
   <<"constructor", Text("Acme Builders")>>}

\* the debugPrompt calls of the tests, without and with a response format
DebugParams == {Params(TRUE, FALSE, Undef), Params(TRUE, FALSE, NestedFormat)}

NextContext ==
  \/ \E c \in LabelArgs : addContext(c[1], c[2])
  \/ \E prompt \in {StringPrompt, TuplePrompt}, params \in DebugParams :
       CallCompletion(prompt, params, [throws |-> FALSE, value |-> Obj(<<>>)])
  \/ ReturnToCaller

SpecContext == InitResponses /\ [][NextContext]_vars

(***************************************************************************)
(* callCompletion over a space of prompt shapes                            *)
(***************************************************************************)
MaxPromptItems == 2

\* an already-formed message object
MessageObject == Obj(<<<<"role", Text("system")>>, <<"content", Text("Be brief")>>>>)

\* elements of a prompt list: two pairs, a message object, and shapes that
\* are neither
PromptItems ==
  {Arr(<<Text("assistant"), Text("Hello")>>),
   Arr(<<Text("user"), Text("How are you?")>>),
   MessageObject,
   Arr(<<Text("user"), Text("How are you?"), Text("extra")>>),
   Obj(<<<<"role", Text("user")>>>>),
   Text("How are you?"),
   Null}

PromptSpace ==
  {StringPrompt, EmptyStr, Undef, Null, Num(42), MessageObject}
  \cup {Arr(items) : items \in UNION {[1..n -> PromptItems] : n \in 0..MaxPromptItems}}

NextPrompts ==
  \/ \E prompt \in PromptSpace, params \in {Undef, Params(TRUE, FALSE, Undef)} :
       CallCompletion(prompt, params,
                      [throws |-> FALSE, value |-> Envelope(providerName, AnswerPlain)])
  \/ ReturnToCaller

SpecPrompts == InitResponses /\ [][NextPrompts]_vars

(***************************************************************************)
(* Image analysis                                                          *)
(***************************************************************************)
MaxImages == 2

\* the image references of the tests
FoobarPng == Str(<<W("https://foobar"), Dot, W("png")>>)

FoobazJpg == Str(<<W("https://foobaz"), Dot, W("jpg")>>)

ImageUrls == {FoobarPng, FoobazJpg}

\* the imageUrls argument: a list of references, or one reference not in a list
ImageArgs ==
  {FoobarPng}
  \cup {Arr(urls) : urls \in UNION {[1..n -> ImageUrls] : n \in 0..MaxImages}}

CaptionPrompt == Text("Analyze these images")

\* what the two injected primitives do when they are invoked: both succeed,
\* web_request throws, download_file_base64 throws
ImageBehaviours(name) ==
  {[throws |-> FALSE, value |-> Envelope(name, AnswerJSON), fetchThrows |-> FALSE],
   [throws |-> TRUE, value |-> Text("connection refused"), fetchThrows |-> FALSE],
   [throws |-> FALSE, value |-> Envelope(name, AnswerJSON), fetchThrows |-> TRUE]}

\* the params of an image analysis call
ImageParams ==
  {Undef, Params(TRUE, FALSE, Undef), Params(FALSE, TRUE, Undef),
   Params(TRUE, FALSE, NestedFormat)}

\* SalsifyAI.<name>Provider(apiKey), with or without a key
InitImages ==
  /\ providerName \in Providers
  /\ apiKey \in {EmptyStr, TestKey}
  /\ baseUrl = DefaultBaseUrl(providerName)
  /\ contexts = <<>>
  /\ call = Idle
  /\ result = Undef
  /\ webLog = <<>>
  /\ built = Undef
  /\ fetchLog = <<>>
  /\ ioLog = <<>>
  /\ context = Undef

CallImageAnalysis(imageUrls, prompt, params, env) ==
  \E out \in {callImageAnalysis(providerName, apiKey, baseUrl, contexts, imageUrls, prompt,
                                params, env)} :
  /\ call = Idle
  /\ Len(out.contexts) <= MaxContexts + 2
  /\ contexts' = out.contexts
  /\ call' = [op |-> "callImageAnalysis", images |-> imageUrls, prompt |-> prompt,
              params |-> params,
              env |-> IF out.web = <<>> THEN Undef ELSE env.value, before |-> contexts,
              promptAfter |-> prompt]
  /\ result' = out.val
  /\ webLog' = out.web
  /\ built' = out.built
  /\ fetchLog' = out.fetched
  /\ ioLog' = IoTrace(out.fetched, out.web)
  /\ UNCHANGED <<context, providerName, apiKey, baseUrl>>

NextImages ==
  \/ \E key \in {EmptyStr, TestKey} : setApiKey(key)
  \/ \E c \in ContextArgs : addContext(c[1], c[2])
  \/ \E imageUrls \in ImageArgs, params \in ImageParams, env \in ImageBehaviours(providerName) :
       CallImageAnalysis(imageUrls, CaptionPrompt, params, env)
  \/ ReturnToCaller

SpecImages == InitImages /\ [][NextImages]_vars

(***************************************************************************)
(* Image analysis over a space of image references                         *)
(***************************************************************************)
\* what follows the last dot of the path: the known extensions in lower and
\* upper case, an extension without a MIME type, the name of a property
\* every object inherits, and no extension at all
Extensions ==
  {<<Dot, W(e)>> : e \in {"png", "jpg", "jpeg", "webp", "heic", "heif", "gif", "PNG", "Jpeg",
                          "constructor"}}
  \cup {<<>>}

\* what follows the path: nothing, a query string, a fragment, and a query
\* string that itself ends in a file name
UrlTails ==
  {<<>>,
   <<W("?"), W("v=1")>>,
   <<W("#"), W("top")>>,
   <<W("?"), W("file=a"), Dot, W("png")>>}

MimeUrls ==
  {Str(<<W("https://cdn"), Dot, W("example/images/photo")>> \o ext \o tail) :
     ext \in Extensions, tail \in UrlTails}

\* SalsifyAI.<name>Provider("testkey") of a provider that analyses images
InitMime ==
  /\ providerName \in ImageProviders
  /\ apiKey = TestKey
  /\ baseUrl = DefaultBaseUrl(providerName)
  /\ contexts = <<>>
  /\ call = Idle
  /\ result = Undef
  /\ webLog = <<>>
  /\ built = Undef
  /\ fetchLog = <<>>
  /\ ioLog = <<>>
  /\ context = Undef

NextMime ==
  \/ \E url \in MimeUrls, params \in {Undef, Params(TRUE, FALSE, Undef)} :
       CallImageAnalysis(Arr(<<url>>), CaptionPrompt, params,
                         [throws |-> FALSE, value |-> Envelope(providerName, AnswerPlain),
                          fetchThrows |-> FALSE])
  \/ ReturnToCaller

SpecMime == InitMime /\ [][NextMime]_vars

(***************************************************************************)
(* callCompletion over base URLs, API keys and token limits                *)
(***************************************************************************)
\* a base URL given without a trailing slash, and with two
ExampleUrl == Text("https://api.example.com")

DoubleSlashUrl == Str(<<W("https://api.example.com"), Slash, Slash>>)

UrlSpace(name) == {ExampleUrl, SlashUrl, DoubleSlashUrl, DefaultBaseUrl(name)}

\* a second API key
OtherKey == Text("otherkey")

\* params with and without max_tokens, on top of the debug flags and a format
RequestParams ==
  {Undef,
   Params(TRUE, FALSE, Undef),
   Obj(<<<<"max_tokens", Num(150)>>>>),
   Obj(<<<<"debugPrompt", Bool(TRUE)>>, <<"max_tokens", Num(150)>>>>),
   Obj(<<<<"debugPrompt", Bool(TRUE)>>, <<"max_tokens", Num(200)>>,
         <<"responseFormat", NestedFormat>>>>)}

\* SalsifyAI.<name>Provider("testkey", baseUrl)
InitRequests ==
  /\ providerName \in Providers
  /\ apiKey = TestKey
  /\ baseUrl \in UrlSpace(providerName)
  /\ contexts = <<>>
  /\ call = Idle
  /\ result = Undef
  /\ webLog = <<>>
  /\ built = Undef
  /\ fetchLog = <<>>
  /\ ioLog = <<>>
  /\ context = Undef

NextRequests ==
  \/ \E key \in {EmptyStr, TestKey, OtherKey} : setApiKey(key)
  \/ \E url \in UrlSpace(providerName) : setBaseUrl(url)
  \/ \E prompt \in {StringPrompt, TuplePrompt}, params \in RequestParams :
       CallCompletion(prompt, params,
                      [throws |-> FALSE, value |-> Envelope(providerName, AnswerPlain)])
  \/ ReturnToCaller

SpecRequests == InitRequests /\ [][NextRequests]_vars

(***************************************************************************)
(* The context store with getContext and clearContext                      *)
(***************************************************************************)
\* the entry { key, context } as getContext returns it
EntryValue(entry) == Obj(<<<<"key", Text(entry.key)>>, <<"context", entry.context>>>>)

\* the entry is one the label argument selects: every entry when no label is given
Selected(entry, label) == ~Truthy(label) \/ Text(entry.key) = label

\* clear(label?) with only the first matching entry removed
clearContextEntriesFirstOnly(store, label) ==
  IF \E i \in 1..Len(store) : Selected(store[i], label)
  THEN LET first == CHOOSE i \in 1..Len(store) :
                      /\ Selected(store[i], label)
                      /\ \A j \in 1..(i - 1) : ~Selected(store[j], label)
       IN SubSeq(store, 1, first - 1) \o SubSeq(store, first + 1, Len(store))
  ELSE store

\* clear(label?): removes matching entries or all entries
clearContextEntries(store, label) ==
  SelectSeq(store, LAMBDA entry : ~Selected(entry, label))

\* get(label?): all entries or only those matching label
getContextEntries(store, label) ==
  SelectSeq(store, LAMBDA entry : Selected(entry, label))

\* the label argument: none, a label in use, a label never added
StoreLabels == {Undef, Text("Greeting"), Text("Footer"), Text("Header")}

\* provider.clearContext(label); what it returns is not specified
clearContext(label) ==
  /\ call = Idle
  /\ contexts' = clearContextEntries(contexts, label)
  /\ call' = [op |-> "clearContext", images |-> Undef, prompt |-> Undef, params |-> label,
              env |-> Undef, before |-> contexts,
              promptAfter |-> Undef]
  /\ result' \in {Undef, ProviderObj}
  /\ webLog' = <<>>
  /\ built' = Undef
  /\ fetchLog' = <<>>
  /\ ioLog' = <<>>
  /\ UNCHANGED <<context, providerName, apiKey, baseUrl>>

\* provider.getContext(label)
getContext(label) ==
  /\ call = Idle
  /\ call' = [op |-> "getContext", images |-> Undef, prompt |-> Undef, params |-> label,
              env |-> Undef, before |-> contexts,
              promptAfter |-> Undef]
  /\ result' = Arr([i \in 1..Len(getContextEntries(contexts, label)) |->
                      EntryValue(getContextEntries(contexts, label)[i])])
  /\ webLog' = <<>>
  /\ built' = Undef
  /\ fetchLog' = <<>>
  /\ ioLog' = <<>>
  /\ UNCHANGED <<context, providerName, apiKey, baseUrl, contexts>>

NextStore ==
  \/ \E c \in LabelArgs : addContext(c[1], c[2])
  \/ \E label \in StoreLabels : clearContext(label)
  \/ \E label \in StoreLabels : getContext(label)
  \/ ReturnToCaller

SpecStore == InitResponses /\ [][NextStore]_vars

(***************************************************************************)
(* The product helper over a space of entities and options                 *)
(***************************************************************************)
\* the collection of the test context, one with every field, and one
\* without a property record
SkuCollection ==
  Obj(<<<<"property", Obj(<<<<"external_id", Text("SKU")>>, <<"id", Text("1")>>>>)>>,
        <<"values", Arr(<<Text("SKU123")>>)>>>>)

NameCollection ==
  Obj(<<<<"property", Obj(<<<<"external_id", Text("Name")>>, <<"id", Text("2")>>>>)>>,
        <<"value_data_type", Text("string")>>,
        <<"locale_id", Text("en-US")>>,
        <<"values", Arr(<<Text("Test Product"), Text("Produit de test")>>)>>>>)

OrphanCollection ==
  Obj(<<<<"value_data_type", Text("string")>>,
        <<"locale_id", Text("en-US")>>,
        <<"values", Arr(<<Text("Orphan")>>)>>>>)

\* the flat object: a list value and a scalar value
FlatValues ==
  Obj(<<<<"Name", Arr(<<Text("Test Product")>>)>>, <<"SKU", Text("SKU123")>>>>)

\* the snapshot of the test context, one of another property, one without values
StringSnapshot ==
  Obj(<<<<"property_id", Text("2")>>, <<"data_type", Text("string")>>,
        <<"locale_id", Text("en-US")>>, <<"values", Arr(<<Text("SnapshotValue")>>)>>>>)

NumberSnapshot ==
  Obj(<<<<"property_id", Text("3")>>, <<"data_type", Text("number")>>,
        <<"locale_id", Text("fr-FR")>>, <<"values", Arr(<<Num(25), Num(599)>>)>>>>)

EmptySnapshot ==
  Obj(<<<<"property_id", Text("2")>>, <<"data_type", Text("string")>>,
        <<"locale_id", Text("en-US")>>, <<"values", Arr(<<>>)>>>>)

\* workflow contexts: each of the three sources absent, empty or filled
ContextSpace ==
  {Obj(<<<<"entity", Obj(co \o ob \o sn)>>>>) :
     co \in {Absent,
             Member("property_value_collections", Arr(<<>>)),
             Member("property_value_collections",
                    Arr(<<SkuCollection, NameCollection, OrphanCollection>>))},
     ob \in {Absent, Member("property_values", FlatValues)},
     sn \in {Absent,
             Member("property_values_snapshot", Arr(<<>>)),
             Member("property_values_snapshot",
                    Arr(<<StringSnapshot, NumberSnapshot, EmptySnapshot>>))}}

OptionSpace ==
  {Undef}
  \cup {Obj(nm \o id \o dt \o lo \o so \o fi) :
          nm \in {Absent, Member("name", Text("SKU")), Member("name", Text("Name"))},
          id \in {Absent, Member("id", Text("2"))},
          dt \in {Absent, Member("dataType", Text("string"))},
          lo \in {Absent, Member("locale", Text("en-US"))},
          so \in {Absent, Member("source", Text("collections")),
                  Member("source", Text("object")), Member("source", Text("snapshot"))},
          fi \in {Absent, Member("first", Bool(TRUE))}}

\* createProductHelper(context); the provider variables play no part
InitProduct ==
  /\ context \in ContextSpace
  /\ providerName = "OpenAI"
  /\ apiKey = EmptyStr
  /\ baseUrl = DefaultBaseUrl("OpenAI")
  /\ contexts = <<>>
  /\ call = Idle
  /\ result = Undef
  /\ webLog = <<>>
  /\ built = Undef
  /\ fetchLog = <<>>
  /\ ioLog = <<>>

\* productHelper.propertyValues(options)
PropertyValues(options) ==
  \E out \in {propertyValues(context, options)} :
  /\ call = Idle
  /\ call' = [op |-> "propertyValues", images |-> Undef, prompt |-> Undef,
              params |-> options, env |-> Undef, before |-> contexts,
              promptAfter |-> Undef]
  /\ result' = out
  /\ webLog' = <<>>
  /\ built' = Undef
  /\ fetchLog' = <<>>
  /\ ioLog' = <<>>
  /\ UNCHANGED <<context, providerName, apiKey, baseUrl, contexts>>

NextProduct ==
  \/ \E options \in OptionSpace : PropertyValues(options)
  \/ ReturnToCaller

SpecProduct == InitProduct /\ [][NextProduct]_vars

(***************************************************************************)
(* Vocabulary of the properties                                            *)
(***************************************************************************)
IsCompletion == call.op = "callCompletion"

\* the providers with native JSON-schema support, and the directive-only ones
NativeJSON == providerName \in {"OpenAI", "GeminiViaOpenAI"}

DirectiveOnly == providerName \in {"Anthropic", "Gemini", "Mistral"}

CallParams == Or(call.params, Obj(<<>>))

CallFormat == Get(CallParams, "responseFormat")

DebugPromptCall == IsCompletion /\ Truthy(Get(CallParams, "debugPrompt"))

DebugResponseCall == IsCompletion /\ Truthy(Get(CallParams, "debugResponse"))

Returned == ~IsThrow(result)

Keys(o) == [i \in 1..Len(o.v) |-> o.v[i][1]]

\* the request descriptor: an object with exactly these members
IsRequestDescriptor(x) ==
  /\ x.t = "obj"
  /\ Keys(x) = <<"url", "method", "headers", "payload", "debugPrompt", "debugResponse">>

\* the responses the HTTP primitive can give
ProviderResponses == {b.value : b \in WebBehaviours(providerName)}

\* the ResponseFormat invariants as validateResponseFormat enforces them
SatisfiesInvariants(fmt) ==
  /\ Has(fmt, "name")
  /\ Get(fmt, "strict") = Bool(TRUE)
  /\ Has(fmt, "schema")
  /\ Get(fmt, "schema").t = "obj"
  /\ Get(Get(fmt, "schema"), "type") = Text("object")
  /\ Has(Get(fmt, "schema"), "properties")
  /\ Get(Get(fmt, "schema"), "properties").t \in {"obj", "arr"}
  /\ Has(Get(fmt, "schema"), "required")
  /\ Get(Get(fmt, "schema"), "required").t = "arr"
  /\ Get(Get(fmt, "schema"), "additionalProperties") = Bool(FALSE)

\* a call whose responseFormat is given and fails validation on a native-JSON provider
RejectedFormatCall ==
  /\ IsCompletion
  /\ NativeJSON
  /\ Truthy(CallFormat)
  /\ ~SatisfiesInvariants(CallFormat)

\* a prompt the message builder accepts
WellFormedPrompt(prompt) ==
  \/ prompt.t = "str"
  \/ /\ prompt.t = "arr"
     /\ \A i \in 1..Len(prompt.v) :
          \/ prompt.v[i].t = "arr" /\ Len(prompt.v[i].v) = 2
          \/ Has(prompt.v[i], "role") /\ Has(prompt.v[i], "content")

\* a list of violation messages
IsViolationList(x) ==
  x.t = "arr" /\ Len(x.v) > 0 /\ \A i \in 1..Len(x.v) : x.v[i].t = "str"

(***************************************************************************)
(* C1  debugPrompt performs no HTTP call and returns the request           *)
(***************************************************************************)
\* C1 as stated: a completion call with debugPrompt true never invokes
\* web_request and, when it returns, its result is the built request
\* descriptor, whatever the other parameters are.
C1_DebugPromptReturnsDescriptor ==
  (DebugPromptCall /\ Returned) =>
    /\ webLog = <<>>
    /\ IsRequestDescriptor(result)
    /\ result = built

\* C1 amended: with debugPrompt true web_request is never invoked and the
\* result is never a provider response; a call that returns gives the built
\* request descriptor, except that a responseFormat failing validation on a
\* native-JSON provider gives the violation list and builds no request.
C1_DebugPromptNoNetwork ==
  DebugPromptCall =>
    /\ webLog = <<>>
    /\ result \notin ProviderResponses
    /\ Returned =>
         IF RejectedFormatCall
         THEN IsViolationList(result) /\ built = Undef
         ELSE /\ IsRequestDescriptor(result)
              /\ result = built
              /\ Get(result, "debugPrompt") = Bool(TRUE)
              /\ Get(result, "debugResponse") = Bool(DebugResponseCall)

\* C1 witness: debugPrompt and debugResponse both set, and the descriptor came back
C1_Witness ==
  /\ DebugPromptCall
  /\ DebugResponseCall
  /\ IsRequestDescriptor(result)
  /\ result = built
  /\ webLog = <<>>

(***************************************************************************)
(* C2  no debug result shows the API key                                   *)
(***************************************************************************)
RedactionToken == Text("REDACTED")

\* the characters of the configured key occur in the string x
ContainsKey(x) ==
  /\ x.t = "str"
  /\ Len(apiKey.v) > 0
  /\ \E i \in 1..Len(x.v) :
       i + Len(apiKey.v) - 1 <= Len(x.v) /\ SubSeq(x.v, i, i + Len(apiKey.v) - 1) = apiKey.v

\* every credential-bearing place of the descriptor d holds the redaction token
Redacted(d) ==
  /\ Has(Get(d, "headers"), "Authorization")
       => Get(Get(d, "headers"), "Authorization") = RedactionToken
  /\ Has(Get(d, "headers"), "x-api-key")
       => Get(Get(d, "headers"), "x-api-key") = RedactionToken
  /\ ~ContainsKey(Get(d, "url"))

\* the failure value of the executor
IsFailureValue(x) == x.t = "obj" /\ Get(x, "status") = Text("failure") /\ Has(x, "request")

\* C2: no value returned in a debug mode contains the API key: the descriptor
\* returned under debugPrompt and the request carried by the failure value
\* hold the redaction token in Authorization, x-api-key and the URL key
\* parameter.
C2_DebugResultsRedacted ==
  /\ (DebugPromptCall /\ IsRequestDescriptor(result)) => Redacted(result)
  /\ (IsCompletion /\ IsFailureValue(result)) => Redacted(Get(result, "request"))

(***************************************************************************)
(* C3  a throwing HTTP primitive gives the structured failure value        *)
(***************************************************************************)
WebThrew == IsCompletion /\ webLog # <<>> /\ webLog[1].threw

FailureValue(request, cause) ==
  Obj(<<<<"status", Text("failure")>>, <<"request", request>>, <<"message", cause>>>>)

\* C3: when web_request throws during a completion call with debugPrompt
\* false, the call does not raise and its result is the failure value
\* {status: "failure", request, message: cause}, for every provider,
\* responseFormat and debugResponse.
C3_TransportFailureIsReturned ==
  (WebThrew /\ ~DebugPromptCall) =>
    /\ Returned
    /\ result = FailureValue(built, call.env)

(***************************************************************************)
(* C4  a rejected response format is a local failure                       *)
(***************************************************************************)
\* C4: on a native-JSON provider a completion call (API key set, prompt well
\* formed) whose responseFormat fails validation returns the non-empty list
\* of violation messages, does not throw, builds no request and never invokes
\* web_request, with or without debugPrompt.
C4_RejectedFormatIsLocal ==
  (RejectedFormatCall /\ Truthy(apiKey) /\ WellFormedPrompt(call.prompt)) =>
    /\ Returned
    /\ IsViolationList(result)
    /\ built = Undef
    /\ webLog = <<>>

\* C4 witness: a rejected format on a call without debugPrompt
C4_Witness ==
  /\ RejectedFormatCall
  /\ ~DebugPromptCall
  /\ IsViolationList(result)
  /\ webLog = <<>>

(***************************************************************************)
(* C5  which response formats validateResponseFormat accepts               *)
(***************************************************************************)
IsValidation == call.op = "validateResponseFormat"

\* the format validateResponseFormat was applied to
ValidatedFormat == call.params

\* a map with at least one entry
IsNonEmptyMap(x) == x.t = "obj" /\ Len(x.v) > 0

\* the invariants as C5 states them
StatedInvariants(fmt) ==
  /\ Has(fmt, "name")
  /\ Get(fmt, "strict") = Bool(TRUE)
  /\ Get(fmt, "schema").t = "obj"
  /\ Get(Get(fmt, "schema"), "type") = Text("object")
  /\ IsNonEmptyMap(Get(Get(fmt, "schema"), "properties"))
  /\ Get(Get(fmt, "schema"), "required").t = "arr"
  /\ Get(Get(fmt, "schema"), "additionalProperties") = Bool(FALSE)

\* C5 as stated: validateResponseFormat returns an empty list exactly when the
\* format has a name, strict true, schema.type "object", a non-empty
\* schema.properties map, an array schema.required and additionalProperties
\* false.
C5_AcceptsExactlyStatedInvariants ==
  IsValidation => ((result = Arr(<<>>)) <=> StatedInvariants(ValidatedFormat))

\* C5 amended: validateResponseFormat returns an empty list exactly when the
\* format has an own name, strict true, an object schema with type "object",
\* a schema.properties that is a non-null object (an empty map is accepted),
\* an array schema.required and additionalProperties false; every other
\* format yields a non-empty list of messages.
C5_AcceptsExactlyEnforcedInvariants ==
  IsValidation =>
    /\ (result = Arr(<<>>)) <=> SatisfiesInvariants(ValidatedFormat)
    /\ ~SatisfiesInvariants(ValidatedFormat) => IsViolationList(result)

\* C5 witness: a format with an empty properties map was validated and accepted
C5_Witness ==
  /\ IsValidation
  /\ Get(Get(ValidatedFormat, "schema"), "properties") = Obj(<<>>)
  /\ result = Arr(<<>>)

(***************************************************************************)
(* C6  one violation message per failed invariant                          *)
(***************************************************************************)
\* how many times msg occurs in the list
Count(list, msg) == Cardinality({i \in 1..Len(list.v) : list.v[i] = msg})

Bit(b) == IF b THEN 1 ELSE 0

\* the schema the schema-level invariants are read from
SchemaOf(fmt) == IF Get(fmt, "schema").t = "obj" THEN Get(fmt, "schema") ELSE Obj(<<>>)

NameMissing(fmt) == ~Has(fmt, "name")

StrictNotTrue(fmt) == Get(fmt, "strict") # Bool(TRUE)

TypeNotObject(fmt) == Get(SchemaOf(fmt), "type") # Text("object")

PropertiesMissing(fmt) ==
  ~Has(SchemaOf(fmt), "properties") \/ Get(SchemaOf(fmt), "properties").t \notin {"obj", "arr"}

RequiredNotArray(fmt) == Get(SchemaOf(fmt), "required").t # "arr"

AdditionalNotFalse(fmt) == Get(SchemaOf(fmt), "additionalProperties") # Bool(FALSE)

\* C6 as stated: the list returned for a rejected format holds exactly one
\* message per failed invariant among missing name, strict not true, missing
\* schema.properties, schema.required not an array and additionalProperties
\* not false, so failing k of these yields k messages.
C6_OneMessagePerStatedInvariant ==
  (IsValidation /\ result # Arr(<<>>)) =>
    LET fmt == ValidatedFormat IN
    /\ Count(result, ErrName) = Bit(NameMissing(fmt))
    /\ Count(result, ErrStrict) = Bit(StrictNotTrue(fmt))
    /\ Count(result, ErrProperties) = Bit(PropertiesMissing(fmt))
    /\ Count(result, ErrRequired) = Bit(RequiredNotArray(fmt))
    /\ Count(result, ErrAdditional) = Bit(AdditionalNotFalse(fmt))
    /\ Len(result.v) = Bit(NameMissing(fmt)) + Bit(StrictNotTrue(fmt))
                       + Bit(PropertiesMissing(fmt)) + Bit(RequiredNotArray(fmt))
                       + Bit(AdditionalNotFalse(fmt))

\* C6 amended: for a format object whose schema is a non-null object the list
\* holds exactly one message per failed check among the five and the check
\* schema.type = "object" (failing k of the six yields k messages); when
\* schema is missing or not an object one schema message stands for all the
\* schema-level checks; a format that is no object gets one message.
C6_OneMessagePerEnforcedCheck ==
  (IsValidation /\ result # Arr(<<>>)) =>
    LET fmt == ValidatedFormat IN
    IF fmt.t \notin {"obj", "arr"} THEN result = Arr(<<ErrNotObject>>)
    ELSE
      /\ Count(result, ErrName) = Bit(NameMissing(fmt))
      /\ Count(result, ErrStrict) = Bit(StrictNotTrue(fmt))
      /\ IF Get(fmt, "schema").t = "obj"
         THEN /\ Count(result, ErrSchema) = 0
              /\ Count(result, ErrType) = Bit(TypeNotObject(fmt))
              /\ Count(result, ErrProperties) = Bit(PropertiesMissing(fmt))
              /\ Count(result, ErrRequired) = Bit(RequiredNotArray(fmt))
              /\ Count(result, ErrAdditional) = Bit(AdditionalNotFalse(fmt))
              /\ Len(result.v) = Bit(NameMissing(fmt)) + Bit(StrictNotTrue(fmt))
                                 + Bit(TypeNotObject(fmt)) + Bit(PropertiesMissing(fmt))
                                 + Bit(RequiredNotArray(fmt)) + Bit(AdditionalNotFalse(fmt))
         ELSE /\ Count(result, ErrSchema) = 1
              /\ Len(result.v) = Bit(NameMissing(fmt)) + Bit(StrictNotTrue(fmt)) + 1

\* C6 witness: a format with an object schema failing several checks at once
C6_Witness ==
  /\ IsValidation
  /\ Get(ValidatedFormat, "schema").t = "obj"
  /\ NameMissing(ValidatedFormat)
  /\ RequiredNotArray(ValidatedFormat)
  /\ AdditionalNotFalse(ValidatedFormat)
  /\ Len(result.v) >= 3

(***************************************************************************)
(* C7  the directive fallback                                              *)
(***************************************************************************)
BuiltPayload == Get(built, "payload")

\* the message list of the built payload
BuiltMessages ==
  IF providerName = "Gemini" THEN Get(BuiltPayload, "contents") ELSE Get(BuiltPayload, "messages")

\* the text of a message
MessageText(m) ==
  IF providerName = "Gemini" THEN Get(At(Get(m, "parts"), 0), "text") ELSE Get(m, "content")

\* the object the first built message spells out
InjectedContext == JSONparse(MessageText(At(BuiltMessages, 0)))

\* a completion call on a directive-only provider with a responseFormat that
\* got as far as building its request
DirectiveCall ==
  /\ IsCompletion
  /\ DirectiveOnly
  /\ Truthy(CallFormat)
  /\ built # Undef

\* a payload field that carries a schema
HasNativeSchemaField(payload) ==
  \/ Has(Get(payload, "response_format"), "json_schema")
  \/ Has(Get(payload, "generationConfig"), "responseSchema")

\* the two entries were appended, schema first, and the context message
\* carries them together with every entry the caller added
DirectiveInjected ==
  /\ contexts = call.before
                \o <<[key |-> SchemaLabel, context |-> JSONstringify(CallFormat)],
                     [key |-> DirectiveLabel, context |-> DirectiveText]>>
  /\ InjectedContext.t = "obj"
  /\ \A i \in 1..Len(contexts) :
       \E j \in 1..Len(Get(InjectedContext, contexts[i].key).v) :
         Get(InjectedContext, contexts[i].key).v[j] = contexts[i].context
  /\ KeyIndex(InjectedContext.v, SchemaLabel) < KeyIndex(InjectedContext.v, DirectiveLabel)
  /\ LET schemas == Get(InjectedContext, SchemaLabel).v
         directives == Get(InjectedContext, DirectiveLabel).v
     IN /\ schemas[Len(schemas)] = JSONstringify(CallFormat)
        /\ JSONparse(schemas[Len(schemas)]) = CallFormat
        /\ directives[Len(directives)] = DirectiveText

\* C7 as stated: a responseFormat on a directive-only provider (Anthropic,
\* Gemini, Mistral) adds exactly two context entries, the serialized format
\* then the directive, serialized into the context message with the caller's
\* context, and the built payload carries no native schema field.
C7_DirectiveOnlyNoSchemaField ==
  DirectiveCall => (DirectiveInjected /\ ~HasNativeSchemaField(BuiltPayload))

\* C7 amended: the two entries are added and serialized as stated for all
\* three directive-only providers; the payload carries no schema for
\* Anthropic and Mistral, while the Gemini payload also carries the schema as
\* generationConfig.responseSchema.
C7_DirectiveFallback ==
  DirectiveCall =>
    /\ DirectiveInjected
    /\ providerName \in {"Anthropic", "Mistral"} => ~HasNativeSchemaField(BuiltPayload)
    /\ providerName = "Gemini" => Has(Get(BuiltPayload, "generationConfig"), "responseSchema")

\* C7 witness: the directive was injected after an entry the caller had added
C7_Witness ==
  /\ DirectiveCall
  /\ providerName = "Anthropic"
  /\ Len(call.before) > 0
  /\ Len(contexts) = Len(call.before) + 2
  /\ DirectiveInjected

(***************************************************************************)
(* C8  how each adapter embeds the response format                         *)
(***************************************************************************)
\* C8: with a responseFormat, OpenAI and GeminiViaOpenAI put
\* response_format = {json_schema: <format>, type: "json_schema"}, Gemini puts
\* generationConfig.responseMimeType and responseSchema, Mistral puts
\* response_format = {type: "json_object"}, Anthropic puts nothing; without a
\* responseFormat none of these fields is in any payload.
C8_FormatEmbedding ==
  (IsCompletion /\ built # Undef) =>
    LET payload == BuiltPayload
        config == Get(payload, "generationConfig")
        noConfigFields == ~Has(config, "responseMimeType") /\ ~Has(config, "responseSchema")
    IN
    IF Truthy(CallFormat)
    THEN CASE providerName \in {"OpenAI", "GeminiViaOpenAI"} ->
                /\ Get(payload, "response_format")
                     = Obj(<<<<"json_schema", CallFormat>>, <<"type", Text("json_schema")>>>>)
                /\ noConfigFields
           [] providerName = "Gemini" ->
                /\ Get(config, "responseMimeType") = Text("application/json")
                /\ Has(config, "responseSchema")
                /\ Get(config, "responseSchema").t = "obj"
                /\ ~Has(payload, "response_format")
           [] providerName = "Mistral" ->
                /\ Get(payload, "response_format") = Obj(<<<<"type", Text("json_object")>>>>)
                /\ noConfigFields
           [] OTHER -> ~Has(payload, "response_format") /\ noConfigFields
    ELSE ~Has(payload, "response_format") /\ noConfigFields

\* C8 witness: a native-JSON adapter embedded the format it was given
C8_Witness ==
  /\ IsCompletion
  /\ providerName = "GeminiViaOpenAI"
  /\ CallFormat = NestedFormat
  /\ Get(Get(BuiltPayload, "response_format"), "json_schema") = NestedFormat

(***************************************************************************)
(* C9  the Gemini schema carries no additionalProperties                   *)
(***************************************************************************)
RECURSIVE HasKeyDeep(_, _)
\* the key k occurs in x at some depth
HasKeyDeep(x, k) ==
  CASE x.t = "obj" ->
         \E i \in 1..Len(x.v) : x.v[i][1] = k \/ HasKeyDeep(x.v[i][2], k)
    [] x.t = "arr" -> \E i \in 1..Len(x.v) : HasKeyDeep(x.v[i], k)
    [] OTHER -> FALSE

\* C9: the schema Gemini embeds as generationConfig.responseSchema contains
\* no additionalProperties keyword at any depth.
C9_GeminiSchemaStripped ==
  (IsCompletion /\ providerName = "Gemini" /\ Truthy(CallFormat) /\ built # Undef) =>
    ~HasKeyDeep(Get(Get(BuiltPayload, "generationConfig"), "responseSchema"),
                "additionalProperties")

(***************************************************************************)
(* C10  JSON round trip on a native-JSON provider                          *)
(***************************************************************************)
\* web_request was invoked and returned the success envelope around text
WebReturned(text) ==
  /\ IsCompletion
  /\ webLog # <<>>
  /\ ~webLog[1].threw
  /\ call.env = Envelope(providerName, text)

\* C10: on a native-JSON provider with both debug flags false and a success
\* envelope whose answer text is valid JSON, a call with a valid
\* responseFormat returns the parsed value, not the string, and a call
\* without responseFormat returns the answer text as it is.
C10_RoundTrip ==
  (NativeJSON /\ WebReturned(AnswerJSON)
     /\ ~DebugPromptCall /\ ~DebugResponseCall) =>
    IF Truthy(CallFormat)
    THEN result = AnswerObject /\ result # AnswerJSON
    ELSE result = AnswerJSON

\* C10 witness: the parsed answer came back from a call with a valid format
C10_Witness ==
  /\ NativeJSON
  /\ WebReturned(AnswerJSON)
  /\ SatisfiesInvariants(CallFormat)
  /\ result = AnswerObject

(***************************************************************************)
(* C11  an answer that is no JSON comes back as raw text                   *)
(***************************************************************************)
\* a completion call with a responseFormat and no debug flag that reached
\* the provider and got the success envelope around text
FormatCallAnswered(text) ==
  /\ WebReturned(text)
  /\ Truthy(CallFormat)
  /\ ~DebugPromptCall
  /\ ~DebugResponseCall

\* C11: when a responseFormat was requested and the extracted answer text is
\* not parseable as JSON, the call returns that raw text unchanged and
\* neither throws nor returns a failure value, for every provider.
C11_UnparseableAnswerIsRawText ==
  /\ FormatCallAnswered(AnswerPlain) => (Returned /\ result = AnswerPlain)
  /\ FormatCallAnswered(AnswerTruncated) => (Returned /\ result = AnswerTruncated)

\* C11 witness: a directive-only provider got a truncated JSON answer back
C11_Witness ==
  /\ DirectiveOnly
  /\ FormatCallAnswered(AnswerTruncated)
  /\ IsThrow(JSONparse(AnswerTruncated))
  /\ result = AnswerTruncated

(***************************************************************************)
(* C12  a response without the answer path gives the empty string          *)
(***************************************************************************)
\* a step that cannot be taken
Missing == [t |-> "missing", v |-> 0]

\* the two kinds of step: to a member of an object, to an element of an array
Key(k) == <<"key", k>>

Index(i) == <<"index", i>>

\* one step down a response
Step(x, s) ==
  CASE x.t = "obj" /\ s[1] = "key" -> IF Has(x, s[2]) THEN Get(x, s[2]) ELSE Missing
    [] x.t = "arr" /\ s[1] = "index" ->
         IF s[2] + 1 \in 1..Len(x.v) THEN x.v[s[2] + 1] ELSE Missing
    [] OTHER -> Missing

RECURSIVE Walk(_, _)
Walk(x, path) == IF path = <<>> THEN x ELSE Walk(Step(x, Head(path)), Tail(path))

\* the place of the answer text in a response of this provider
AnswerAt(response) ==
  CASE providerName \in {"OpenAI", "GeminiViaOpenAI", "Mistral"} ->
         Walk(response, <<Key("choices"), Index(0), Key("message"), Key("content")>>)
    [] providerName = "Anthropic" ->
         LET block == Walk(response, <<Key("content"), Index(0)>>) IN
         Step(block, Key(PropertyKey(Step(block, Key("type")))))
    [] providerName = "Gemini" ->
         Walk(response, <<Key("candidates"), Index(0), Key("content"), Key("parts"), Index(0),
                          Key("text")>>)

\* a completion call without debug flags that got this response from web_request
Answered == IsCompletion /\ webLog # <<>> /\ ~webLog[1].threw /\ ~DebugPromptCall /\ ~DebugResponseCall

\* C12: for every provider and every response of the HTTP primitive in which
\* the provider's answer path is absent, content extraction yields the empty
\* string and never throws.
C12_AbsentPathIsEmptyString ==
  (Answered /\ AnswerAt(call.env) = Missing) => (Returned /\ result = EmptyStr)

(***************************************************************************)
(* C13  the context message groups the entries by label                    *)
(***************************************************************************)
RECURSIVE FirstLabels(_, _)
\* the labels of the entries from index i on, each once, in the order of
\* their first insertion
FirstLabels(entries, seen) ==
  IF entries = <<>> THEN seen
  ELSE FirstLabels(Tail(entries),
                   IF \E j \in 1..Len(seen) : seen[j] = Head(entries).key
                   THEN seen
                   ELSE Append(seen, Head(entries).key))

\* the values added under a label, in arrival order
ValuesOf(entries, label) ==
  LET under == SelectSeq(entries, LAMBDA e : e.key = label) IN
  [i \in 1..Len(under) |-> under[i].context]

\* a completion call that passed the checks made before the context is serialized
ReachedSerialization ==
  /\ IsCompletion
  /\ Truthy(apiKey)
  /\ WellFormedPrompt(call.prompt)
  /\ ~RejectedFormatCall

\* the number of messages the caller's prompt stands for
PromptLength(prompt) == IF prompt.t = "arr" THEN Len(prompt.v) ELSE 1

\* C13: for every sequence of N >= 0 addContext calls the injected context
\* message serializes the entries grouped by label: labels in the order of
\* their first insertion, the values under one label an array in arrival
\* order, no entry dropped or deduplicated.
C13_ContextGroupedByLabel ==
  ReachedSerialization =>
    /\ built # Undef
    /\ IF contexts = <<>>
       THEN Len(BuiltMessages.v) = PromptLength(call.prompt)
       ELSE /\ InjectedContext.t = "obj"
            /\ Keys(InjectedContext) = FirstLabels(contexts, <<>>)
            /\ \A i \in 1..Len(contexts) :
                 Get(InjectedContext, contexts[i].key)
                   = Arr(ValuesOf(contexts, contexts[i].key))

(***************************************************************************)
(* C14  the context message is first, the caller's messages follow in order *)
(***************************************************************************)
\* the content the caller gave for the i-th message of the prompt
CallerContent(prompt, i) ==
  IF prompt.t = "str" THEN prompt
  ELSE IF prompt.v[i].t = "arr" THEN prompt.v[i].v[2]
  ELSE Get(prompt.v[i], "content")

\* the synthetic message: user role, and a text that spells out an object
\* holding every label of the store
IsSyntheticContext(m) ==
  /\ Get(m, "role") = Text("user")
  /\ JSONparse(MessageText(m)).t = "obj"
  /\ \A i \in 1..Len(contexts) : Has(JSONparse(MessageText(m)), contexts[i].key)

IsWireMessage(m, role, content) ==
  /\ Get(m, "role") = role
  /\ IF providerName = "Gemini"
     THEN IF content.t = "str"
          THEN Get(m, "parts") = Arr(<<Obj(<<<<"text", content>>>>)>>)
          ELSE Get(m, "parts") = content
     ELSE Get(m, "content") = content

\* C15: the message builder maps a string prompt to exactly one user message
\* with that string as content, and a list of n elements to n messages in
\* the same order, each [role, content] pair keeping its role and its content
\* in the provider's wire shape (also for the provider that nests content
\* under parts) and each {role, content} object passed through.
C15_MessagesKeepRoleAndContent ==
  (IsCompletion /\ built # Undef /\ contexts = <<>>) =>
    LET msgs == BuiltMessages.v
        prompt == call.prompt
    IN /\ Len(msgs) = PromptLength(prompt)
       /\ prompt.t = "str" => IsWireMessage(msgs[1], Text("user"), prompt)
       /\ prompt.t = "arr" =>
            \A i \in 1..Len(prompt.v) :
              IF prompt.v[i].t = "arr"
              THEN IsWireMessage(msgs[i], prompt.v[i].v[1], prompt.v[i].v[2])
              ELSE msgs[i] = prompt.v[i]

(***************************************************************************)
(* C16  a malformed prompt fails before any request is built               *)
(***************************************************************************)
\* C16: a prompt that is neither a string nor a list whose every element is
\* a two-element pair or an object with role and content makes the call fail
\* with an error before any request is built and before web_request is
\* invoked; nothing is returned.
C16_MalformedPromptFails ==
  (IsCompletion /\ ~WellFormedPrompt(call.prompt)) =>
    /\ IsThrow(result)
    /\ built = Undef
    /\ webLog = <<>>
    /\ contexts = call.before

\* C16 witness: a list whose first element is a proper pair and whose second
\* is not, on a call that would otherwise have gone to the network
C16_Witness ==
  /\ IsCompletion
  /\ ~DebugPromptCall
  /\ call.prompt.t = "arr"
  /\ Len(call.prompt.v) = 2
  /\ WellFormedPrompt(Arr(<<call.prompt.v[1]>>))
  /\ ~WellFormedPrompt(call.prompt)
  /\ result = Throw(ErrInvalidMessage)
  /\ webLog = <<>>

(***************************************************************************)
(* C17  without an API key nothing is built and no I/O is made             *)
(***************************************************************************)
IsImageCall == call.op = "callImageAnalysis"

\* the providers able to analyse images
ImageCapable == providerName \in {"OpenAI", "Mistral", "Gemini"}

\* the error raised when no API key is configured
MissingCredential == Throw(Str(<<W("No API key set for "), W(providerName), W(".")>>))

\* C17: with no API key configured (empty at construction or set empty
\* later) callCompletion and callImageAnalysis fail with the
\* missing-credential error before any request is built and before any I/O:
\* neither web_request nor download_file_base64 is invoked, for every
\* provider and every number of image references.
C17_NoKeyNoIO ==
  ((IsCompletion \/ IsImageCall) /\ ~Truthy(apiKey)) =>
    /\ result = MissingCredential
    /\ built = Undef
    /\ webLog = <<>>
    /\ fetchLog = <<>>

(***************************************************************************)
(* C18  image analysis on a provider without that capability               *)
(***************************************************************************)
\* the error message x names the provider
NamesProvider(x) ==
  /\ IsThrow(x)
  /\ x.v.t = "str"
  /\ \E i \in 1..Len(x.v.v) : x.v.v[i] = W(providerName)

DebugPromptImageCall ==
  IsImageCall /\ Truthy(Get(Or(call.params, Obj(<<>>)), "debugPrompt"))

\* s is a prefix of t
IsPrefix(s, t) == Len(s) <= Len(t) /\ s = SubSeq(t, 1, Len(s))

\* C19 as stated: image analysis with debugPrompt true performs no network
\* I/O for every image-capable provider, the ones needing inline bytes
\* included: neither download_file_base64 nor web_request is invoked.
C19_DebugImageNoIO ==
  (DebugPromptImageCall /\ ImageCapable) => (fetchLog = <<>> /\ webLog = <<>>)

\* C19 amended: with debugPrompt true web_request is never invoked and
\* OpenAI and Mistral download nothing; Gemini, which needs inline bytes,
\* still invokes download_file_base64 once per image reference, in reference
\* order, stopping only at a download that fails.
C19_DebugImageNoRequest ==
  DebugPromptImageCall =>
    /\ webLog = <<>>
    /\ providerName # "Gemini" => fetchLog = <<>>
    /\ (providerName = "Gemini" /\ call.images.t = "arr") =>
         IF result = Throw(Text("download failed"))
         THEN fetchLog # <<>> /\ IsPrefix(fetchLog, call.images.v)
         ELSE fetchLog = call.images.v

\* C19 witness: Gemini returned the descriptor of a two-image call after
\* downloading both images
C19_Witness ==
  /\ DebugPromptImageCall
  /\ providerName = "Gemini"
  /\ call.images = Arr(<<FoobazJpg, FoobarPng>>)
  /\ fetchLog = <<FoobazJpg, FoobarPng>>
  /\ webLog = <<>>
  /\ IsRequestDescriptor(result)

(***************************************************************************)
(* C20  one message per image, then one for the text                       *)
(***************************************************************************)
\* what a message carries: parts for Gemini, content for the others
Carried(m) == IF providerName = "Gemini" THEN Get(m, "parts") ELSE Get(m, "content")

\* the attachment att stands for the image reference ref
IsImageOf(att, ref) ==
  CASE providerName = "OpenAI" ->
         Get(att, "type") = Text("image_url") /\ Get(Get(att, "image_url"), "url") = ref
    [] providerName = "Mistral" ->
         Get(att, "type") = Text("image_url") /\ Get(att, "image_url") = ref
    [] providerName = "Gemini" ->
         /\ Keys(att) = <<"inline_data">>
         /\ Get(Get(att, "inline_data"), "data") = Str(<<W("base64 of ")>> \o ref.v)
    [] OTHER -> FALSE

\* C20: for a list of k >= 0 image references and a text prompt, image
\* analysis builds k user messages, one per image in reference order, each
\* carrying exactly one image attachment, then exactly one trailing user
\* message carrying the text; any context message comes before all of them.
C20_OneMessagePerImage ==
  (IsImageCall /\ built # Undef) =>
    LET msgs == BuiltMessages.v
        k == Len(call.images.v)
        off == IF contexts = <<>> THEN 0 ELSE 1
    IN /\ Len(msgs) = off + k + 1
       /\ contexts # <<>> => IsSyntheticContext(msgs[1])
       /\ \A i \in 1..k :
            /\ Get(msgs[off + i], "role") = Text("user")
            /\ Carried(msgs[off + i]).t = "arr"
            /\ Len(Carried(msgs[off + i]).v) = 1
            /\ IsImageOf(Carried(msgs[off + i]).v[1], call.images.v[i])
       /\ Get(msgs[off + k + 1], "role") = Text("user")
       /\ Carried(msgs[off + k + 1]).t = "arr"
       /\ Len(Carried(msgs[off + k + 1]).v) = 1
       /\ Get(Carried(msgs[off + k + 1]).v[1], "text") = call.prompt

\* C20 witness: two different images behind a context message
C20_Witness ==
  /\ IsImageCall
  /\ built # Undef
  /\ call.before # <<>>
  /\ call.images = Arr(<<FoobarPng, FoobazJpg>>)
  /\ Len(BuiltMessages.v) = 4
  /\ IsImageOf(Carried(BuiltMessages.v[3]).v[1], FoobazJpg)

(***************************************************************************)
(* C21  one HTTP call at most, the downloads first                         *)
(***************************************************************************)
\* the positions of the invocations of one primitive in the I/O order
InvocationsOf(primitive) == {i \in 1..Len(ioLog) : ioLog[i][1] = primitive}

\* the references handed to download_file_base64, in the order of the calls
Downloaded ==
  [i \in 1..Cardinality(InvocationsOf("download_file_base64")) |->
     ioLog[CHOOSE j \in InvocationsOf("download_file_base64") :
             Cardinality({l \in InvocationsOf("download_file_base64") : l <= j}) = i][2]]

\* a download raised an error, which ended the operation
DownloadFailed == result = Throw(Text("download failed"))

WithoutTail(toks) ==
  IF \E i \in 1..Len(toks) : toks[i] \in {W("?"), W("#")}
  THEN SubSeq(toks, 1, (CHOOSE i \in 1..Len(toks) :
                          /\ toks[i] \in {W("?"), W("#")}
                          /\ \A j \in 1..(i - 1) : toks[j] \notin {W("?"), W("#")}) - 1)
  ELSE toks

\* the file-extension suffix of a reference in lower case, "" when it has none
SuffixOf(ref) ==
  LET path == WithoutTail(ref.v)
      last == IF Len(path) >= 2 /\ path[Len(path) - 1] = W(".") THEN path[Len(path)][2] ELSE ""
  IN CASE last = "PNG" -> "png"
       [] last = "Jpeg" -> "jpeg"
       [] OTHER -> last

\* the MIME type the suffix stands for
MimeOfSuffix(suffix) ==
  CASE suffix = "png" -> Text("image/png")
    [] suffix \in {"jpg", "jpeg"} -> Text("image/jpeg")
    [] suffix = "webp" -> Text("image/webp")
    [] suffix = "heic" -> Text("image/heic")
    [] suffix = "heif" -> Text("image/heif")
    [] OTHER -> Text("unknown")

\* C22: the MIME type of an image reference follows its file-extension
\* suffix, case-insensitively and ignoring a trailing query string or
\* fragment: png, jpg, jpeg, webp, heic and heif give their image types and
\* every other or missing suffix gives "unknown"; a reference of unknown type
\* is still sent as an attachment, with that type, and is not rejected.
C22_MimeBySuffix ==
  (IsImageCall /\ providerName = "Gemini" /\ call.images.t = "arr" /\ Truthy(apiKey)) =>
    /\ built # Undef
    /\ \A i \in 1..Len(call.images.v) :
         LET att == Carried(BuiltMessages.v[i]).v[1] IN
         /\ Keys(att) = <<"inline_data">>
         /\ Get(Get(att, "inline_data"), "mime_type")
              = MimeOfSuffix(SuffixOf(call.images.v[i]))
         /\ Get(Get(att, "inline_data"), "data") = Str(<<W("base64 of ")>> \o call.images.v[i].v)

(***************************************************************************)
(* C23  the request URL: base URL less one trailing slash, then the path   *)
(***************************************************************************)
\* the characters of s with one trailing slash removed, if it has one
LessOneSlash(s) ==
  IF Len(s) > 0 /\ s[Len(s)] = W("/") THEN SubSeq(s, 1, Len(s) - 1) ELSE s

\* what each adapter puts after the base URL
PathOf(name) ==
  CASE name \in {"OpenAI", "Mistral"} -> <<W("/v1/chat/completions")>>
    [] name = "Anthropic" -> <<W("/v1/messages")>>
    [] name = "Gemini" -> <<W("?key=")>> \o apiKey.v
    [] name = "GeminiViaOpenAI" -> <<>>

BuiltUrl == Get(built, "url")

\* C23: the request URL is the base URL with exactly one trailing slash
\* removed when it ends in a slash, and unchanged otherwise, followed by the
\* provider's path; so a base URL with or without one trailing slash gives
\* the same URL, with no slash doubled at the join, for every adapter.
C23_UrlJoin ==
  (IsCompletion /\ built # Undef) =>
    /\ BuiltUrl = Str(LessOneSlash(baseUrl.v) \o PathOf(providerName))
    /\ baseUrl \in {ExampleUrl, SlashUrl} =>
         /\ BuiltUrl = Str(ExampleUrl.v \o PathOf(providerName))
         /\ \A i \in 1..Len(BuiltUrl.v) : BuiltUrl.v[i] # W("/")

\* C23 witness: a base URL with a trailing slash joined to the OpenAI path
C23_Witness ==
  /\ IsCompletion
  /\ providerName = "OpenAI"
  /\ baseUrl = SlashUrl
  /\ built # Undef
  /\ BuiltUrl = Str(<<W("https://api.example.com"), W("/v1/chat/completions")>>)

(***************************************************************************)
(* C24  where the API key travels                                          *)
(***************************************************************************)
BuiltHeaders == Get(built, "headers")

\* the headers of the built request that contain the API key
HeadersWithKey ==
  {BuiltHeaders.v[i][1] : i \in {j \in 1..Len(BuiltHeaders.v) : ContainsKey(BuiltHeaders.v[j][2])}}

\* C24: every built request carries the API key in exactly one place, fixed
\* by the provider family: "Bearer <key>" in the Authorization header
\* (OpenAI, Mistral, GeminiViaOpenAI), the x-api-key header (Anthropic) or
\* the key query parameter of the URL (Gemini), and in no other header nor,
\* for the header families, in the URL; whatever the prompt, the parameters
\* and the earlier calls are.
C24_KeyPlacement ==
  built # Undef =>
    CASE providerName \in {"OpenAI", "Mistral", "GeminiViaOpenAI"} ->
           /\ Get(BuiltHeaders, "Authorization") = Str(<<W("Bearer ")>> \o apiKey.v)
           /\ HeadersWithKey = {"Authorization"}
           /\ ~ContainsKey(BuiltUrl)
      [] providerName = "Anthropic" ->
           /\ Get(BuiltHeaders, "x-api-key") = apiKey
           /\ HeadersWithKey = {"x-api-key"}
           /\ ~ContainsKey(BuiltUrl)
      [] providerName = "Gemini" ->
           /\ HeadersWithKey = {}
           /\ \E prefix \in {SubSeq(BuiltUrl.v, 1, Len(BuiltUrl.v) - Len(apiKey.v) - 1)} :
                /\ BuiltUrl = Str(prefix \o <<W("?key=")>> \o apiKey.v)
                /\ ~ContainsKey(Str(prefix))

\* C24 witness: Gemini, after the key was changed, carries the new key in the URL
C24_Witness ==
  /\ IsCompletion
  /\ providerName = "Gemini"
  /\ apiKey = OtherKey
  /\ built # Undef
  /\ BuiltUrl = Str(DefaultBaseUrl("Gemini").v \o <<W("?key="), W("otherkey")>>)
  /\ Keys(BuiltHeaders) = <<"Content-Type">>

(***************************************************************************)
(* C25  the token limit of the request                                     *)
(***************************************************************************)
\* the token-limit field of the built payload, under the provider's name for it
TokenLimit ==
  IF providerName = "Gemini"
  THEN Get(Or(Get(BuiltPayload, "generationConfig"), Obj(<<>>)), "maxOutputTokens")
  ELSE Get(BuiltPayload, "max_tokens")

\* C25: every adapter emits a token-limit field under the name its provider
\* expects: the caller's max_tokens value when the caller gives one, and a
\* provider-specific numeric default when the caller gives none, for all
\* five providers.
C25_TokenLimitEmitted ==
  (IsCompletion /\ built # Undef) =>
    IF Get(CallParams, "max_tokens") # Undef
    THEN TokenLimit = Get(CallParams, "max_tokens")
    ELSE TokenLimit.t = "num"

(***************************************************************************)
(* C26  debugResponse returns what the HTTP primitive returned             *)
(***************************************************************************)
\* a completion call with debugResponse true and debugPrompt false that returned
RawResponseCall == DebugResponseCall /\ ~DebugPromptCall /\ Returned

\* C26 as stated: with debugResponse true and debugPrompt false a call
\* invokes web_request once and returns exactly the value web_request
\* returned, neither extracted nor coerced, also when a responseFormat was
\* requested.
C26_DebugResponseIsRaw ==
  RawResponseCall =>
    /\ Len(webLog) = 1
    /\ ~webLog[1].threw => result = call.env

\* C26 amended: such a call invokes web_request once and returns exactly the
\* value web_request returned (the failure value when web_request threw),
\* also when a responseFormat was requested, except that a responseFormat
\* failing validation on a native-JSON provider gives the violation list
\* without any request.
C26_DebugResponseIsRawUnlessRejected ==
  RawResponseCall =>
    IF RejectedFormatCall
    THEN IsViolationList(result) /\ webLog = <<>> /\ built = Undef
    ELSE /\ Len(webLog) = 1
         /\ IF webLog[1].threw
            THEN result = FailureValue(built, Text("connection refused"))
            ELSE result = call.env /\ result \in ProviderResponses

\* C26 witness: the raw envelope came back although a responseFormat asked
\* for the JSON inside it
C26_Witness ==
  /\ RawResponseCall
  /\ CallFormat = NestedFormat
  /\ Len(webLog) = 1
  /\ result = Envelope(providerName, AnswerJSON)

(***************************************************************************)
(* C27  clearing the context store                                         *)
(***************************************************************************)
\* the entries of a store whose label is not the given one, in their order
Others(entries, label) == SelectSeq(entries, LAMBDA e : Text(e.key) # label)

\* the store as a collection of { key, context } values
AsCollection(entries) ==
  Arr([i \in 1..Len(entries) |->
         Obj(<<<<"key", Text(entries[i].key)>>, <<"context", entries[i].context>>>>)])

\* C27: after any sequence of addContext calls, clearContext() leaves the
\* store empty, so that a getContext() after it returns an empty collection;
\* clearContext(label) removes exactly the entries with that label and keeps
\* all the others in their order; clearing an empty store leaves it empty;
\* getContext() returns the whole store and changes nothing.
C27_ClearContext ==
  [][/\ (call'.op = "clearContext" /\ call'.params = Undef) => contexts' = <<>>
     /\ (call'.op = "clearContext" /\ call'.params # Undef) =>
          contexts' = Others(contexts, call'.params)
     /\ (call'.op = "clearContext" /\ contexts = <<>>) => contexts' = <<>>
     /\ (call'.op = "getContext" /\ call'.params = Undef) =>
          /\ result' = AsCollection(contexts)
          /\ contexts' = contexts
     /\ (call'.op = "getContext" /\ contexts = <<>>) => result' = Arr(<<>>)
     /\ call'.op = "idle" => contexts' = contexts]_vars

\* C27 witness: of a store holding entries under the label and one under
\* another, clearContext(label) kept the one under the other label
C27_Witness ==
  /\ call.op = "clearContext"
  /\ call.params = Text("Greeting")
  /\ Len(call.before) >= 2
  /\ \E i \in 1..Len(call.before) : call.before[i].key = "Greeting"
  /\ contexts = <<[key |-> "Footer", context |-> Text("Goodbye")]>>

(***************************************************************************)
(* C28  ProductHelper.propertyValues                                       *)
(***************************************************************************)
IsPropertyValues == call.op = "propertyValues"

Options == Or(call.params, Obj(<<>>))

Entity == Get(context, "entity")

\* x is a list with at least one element
NonEmptyList(x) == x.t = "arr" /\ Len(x.v) > 0

\* the source the claim says is chosen
ChosenSource ==
  IF Get(Options, "source") # Undef THEN Get(Options, "source")
  ELSE IF NonEmptyList(Get(Entity, "property_value_collections")) THEN Text("collections")
  ELSE IF Has(Entity, "property_values") THEN Text("object")
  ELSE IF NonEmptyList(Get(Entity, "property_values_snapshot")) THEN Text("snapshot")
  ELSE Text("object")

\* the entries of the chosen source in source order; an entry of the flat
\* object is its key with its value
SourceEntries ==
  CASE ChosenSource = Text("collections") -> Get(Entity, "property_value_collections").v
    [] ChosenSource = Text("snapshot") -> Get(Entity, "property_values_snapshot").v
    [] ChosenSource = Text("object") ->
         IF Has(Entity, "property_values")
         THEN [i \in 1..Len(Get(Entity, "property_values").v) |->
                 Obj(<<<<"key", Text(Get(Entity, "property_values").v[i][1])>>,
                       <<"values", Get(Entity, "property_values").v[i][2]>>>>)]
         ELSE <<>>

\* the field of an entry a filter is compared with, undefined when the
\* entries of the source have no such field
FieldFor(entry, filter) ==
  CASE ChosenSource = Text("collections") ->
         (CASE filter = "name" ->
                 IF Has(entry, "property") THEN Get(Get(entry, "property"), "external_id")
                 ELSE Undef
            [] filter = "id" ->
                 IF Has(entry, "property") THEN Get(Get(entry, "property"), "id") ELSE Undef
            [] filter = "dataType" -> Get(entry, "value_data_type")
            [] filter = "locale" -> Get(entry, "locale_id"))
    [] ChosenSource = Text("snapshot") ->
         (CASE filter = "id" -> Get(entry, "property_id")
            [] filter = "dataType" -> Get(entry, "data_type")
            [] filter = "locale" -> Get(entry, "locale_id")
            [] OTHER -> Undef)
    [] ChosenSource = Text("object") ->
         (CASE filter = "name" -> Get(entry, "key")
            [] OTHER -> Undef)

Filters == {"name", "id", "dataType", "locale"}

GivenFilters == {f \in Filters : Get(Options, f) # Undef}

\* the entry matches all given filters
MatchesAll(entry) == \A f \in GivenFilters : FieldFor(entry, f) = Get(Options, f)

\* the entry matches the given filters as the code applies them: a filter on
\* a field the entry does not have is passed over, except that the flat
\* object yields nothing once a dataType is given
MatchesApplied(entry) ==
  /\ \A f \in GivenFilters : FieldFor(entry, f) # Undef => FieldFor(entry, f) = Get(Options, f)
  /\ ChosenSource = Text("collections") =>
       \A f \in GivenFilters \cap {"dataType", "locale"} : FieldFor(entry, f) = Get(Options, f)
  /\ ChosenSource = Text("object") => "dataType" \notin GivenFilters

\* the values of an entry
EntryValues(entry) ==
  IF Get(entry, "values").t = "arr" THEN Get(entry, "values").v
  ELSE IF Get(entry, "values") = Undef THEN <<>>
  ELSE <<Get(entry, "values")>>

RECURSIVE Flatten(_)
\* the sequences of a sequence, one after the other
Flatten(seqs) == IF seqs = <<>> THEN <<>> ELSE Head(seqs) \o Flatten(Tail(seqs))

\* the values of the entries that satisfy the test, concatenated in source order
ValuesWhere(entries, Test(_)) ==
  Flatten([i \in 1..Len(entries) |->
             IF Test(entries[i]) THEN EntryValues(entries[i]) ELSE <<>>])

\* what a call that found these values returns
FirstOrAll(values) ==
  IF Get(Options, "first") = Bool(TRUE) /\ values # <<>> THEN values[1] ELSE Arr(values)

EntriesUnder(entries, label) == Cardinality({i \in 1..Len(entries) : entries[i].key = label})

\* the number of values the context message of the built request carries under a label
CopiesInMessage(label) == Len(Get(InjectedContext, label).v)

\* what a call has done to the store by the time it returns
InjectionOfCall ==
  IF /\ IsCompletion
     /\ DirectiveOnly
     /\ Truthy(CallFormat)
     /\ Truthy(apiKey)
     /\ WellFormedPrompt(call.prompt)
  THEN /\ contexts = call.before
            \o <<[key |-> "RESPOND WITH THIS SCHEMA", context |-> JSONstringify(CallFormat)],
                 [key |-> "RESPONSE DIRECTIVE", context |-> DirectiveText]>>
       /\ built # Undef
       /\ CopiesInMessage("RESPOND WITH THIS SCHEMA")
            = EntriesUnder(call.before, "RESPOND WITH THIS SCHEMA") + 1
       /\ CopiesInMessage("RESPONSE DIRECTIVE")
            = EntriesUnder(call.before, "RESPONSE DIRECTIVE") + 1
  ELSE IF call.op = "addContext"
  THEN Len(contexts) = Len(call.before) + 1 /\ SubSeq(contexts, 1, Len(call.before)) = call.before
  ELSE contexts = call.before

\* C29: the context store changes only through addContext and through the
\* directive injection of a call. Each callCompletion with a responseFormat
\* on a directive-only provider (one that passes the API-key and prompt
\* checks) appends exactly two entries, the schema and the directive, which
\* persist after the call returns, also under debugPrompt; so the k-th such
\* call finds 2(k-1) injected entries, leaves 2k, and its context message
\* carries as many copies of the schema and of the directive as the store
\* holds. Every other call appends nothing.
C29_StoreGrowsByInjection ==
  /\ [](call.op # "idle" => InjectionOfCall)
  /\ [][/\ call'.op # "idle" => call'.before = contexts
        /\ call'.op = "idle" => contexts' = contexts]_vars

\* C29 witness: the second call with a responseFormat on one instance, under
\* debugPrompt: four entries in the store, two copies of each in the message
C29_Witness ==
  /\ DebugPromptCall
  /\ DirectiveOnly
  /\ Truthy(CallFormat)
  /\ Len(call.before) = 2
  /\ call.before[1].key = "RESPOND WITH THIS SCHEMA"
  /\ Len(contexts) = 4
  /\ built # Undef
  /\ CopiesInMessage("RESPOND WITH THIS SCHEMA") = 2
  /\ CopiesInMessage("RESPONSE DIRECTIVE") = 2

(***************************************************************************)
(* C30  what a completion call on a native-JSON provider leaves alone      *)
(***************************************************************************)
\* the messages of the request a second call with the caller's prompt list,
\* as the first call left it, and the same parameters builds
MessagesOfSecondCall ==
  Get(Get(callCompletion(providerName, apiKey, baseUrl, contexts, call.promptAfter,
                         call.params, [throws |-> FALSE, value |-> call.env]).built,
          "payload"),
      "messages")

====
